---- MODULE Spec2Model ----
(***************************************************************************)
(* Employee task tracker: the SQLite store (server/database, storage.ts),  *)
(* the zod schemas (shared/schema.ts) and the Express handlers             *)
(* (server/routes.ts), as a state machine over the two tables.             *)
(***************************************************************************)
EXTENDS Integers, Sequences, FiniteSets, TLC

VARIABLES
    employees,        \* table employees: id -> row
    tasks,            \* table tasks: id -> row
    seqEmployees,     \* sqlite_sequence value of employees (AUTOINCREMENT)
    seqTasks,         \* sqlite_sequence value of tasks (AUTOINCREMENT)
    now,              \* the store's clock, in whole seconds (CURRENT_TIMESTAMP)
    everEmployeeIds,  \* history: every employee id that was ever a row
    everTaskIds,      \* history: every task id that was ever a row
    requests,         \* number of requests handled so far
    last,             \* the last request handled and the response sent
    updatingTaskId,   \* Tasks page: useState<number | null>, <<>> for null
    mutations         \* Tasks page: the quick-status mutations started so far

vars == <<employees, tasks, seqEmployees, seqTasks, now,
          everEmployeeIds, everTaskIds, requests, last, updatingTaskId, mutations>>

(***************************************************************************)
(* Bounds of the model.                                                    *)
(***************************************************************************)
MaxRequests == 3
MaxTime == 1
MaxStatTasks == 40

(***************************************************************************)
(* SQL NULL, and the absence of a path parameter.                          *)
(***************************************************************************)
Null == "NULL"
NoId == <<>>

Max(a, b) == IF a >= b THEN a ELSE b

\* errors[0].message: the first message alone
JoinFirst(msgs) == IF Len(msgs) = 0 THEN "" ELSE msgs[1]

RECURSIVE Join(_)
\* Array.prototype.join(", ") of the messages
Join(msgs) ==
    IF Len(msgs) = 0 THEN ""
    ELSE IF Len(msgs) = 1 THEN msgs[1]
    ELSE msgs[1] \o ", " \o Join(Tail(msgs))

(***************************************************************************)
(* JavaScript strings: characters, parseInt, String.prototype.includes.    *)
(***************************************************************************)
Char(s, i) == SubSeq(s, i, i)

Digits == {"0", "1", "2", "3", "4", "5", "6", "7", "8", "9"}

Letters == {"a", "b", "c", "d", "e", "f", "g", "h", "i", "j", "k", "l", "m",
            "n", "o", "p", "q", "r", "s", "t", "u", "v", "w", "x", "y", "z",
            "A", "B", "C", "D", "E", "F", "G", "H", "I", "J", "K", "L", "M",
            "N", "O", "P", "Q", "R", "S", "T", "U", "V", "W", "X", "Y", "Z"}

DigitVal(c) ==
    CASE c = "0" -> 0 [] c = "1" -> 1 [] c = "2" -> 2 [] c = "3" -> 3
      [] c = "4" -> 4 [] c = "5" -> 5 [] c = "6" -> 6 [] c = "7" -> 7
      [] c = "8" -> 8 [] c = "9" -> 9

\* s.includes(sub)
Includes(s, sub) ==
    \E i \in 1..(Len(s) - Len(sub) + 1) : SubSeq(s, i, i + Len(sub) - 1) = sub

RECURSIVE LeadingDigits(_, _)
\* the number of decimal digits of s from position i on
LeadingDigits(s, i) ==
    IF i <= Len(s) /\ Char(s, i) \in Digits THEN 1 + LeadingDigits(s, i + 1) ELSE 0

RECURSIVE DecimalValue(_, _, _)
\* the value of the n digits of s that end at position i
DecimalValue(s, i, n) ==
    IF n = 0 THEN 0 ELSE 10 * DecimalValue(s, i - 1, n - 1) + DigitVal(Char(s, i))

\* parseInt(s): an optional sign, then the longest prefix of decimal digits;
\* NaN when there is none. What follows the digits is ignored.
ParseInt(s) ==
    LET signed == Len(s) >= 1 /\ Char(s, 1) \in {"+", "-"}
        first == IF signed THEN 2 ELSE 1
        n == LeadingDigits(s, first)
        v == DecimalValue(s, first + n - 1, n)
    IN IF n = 0 THEN [nan |-> TRUE, n |-> 0]
       ELSE [nan |-> FALSE,
             n |-> IF signed /\ Char(s, 1) = "-" THEN 0 - v ELSE v]

(***************************************************************************)
(* shared/schema.ts: insertEmployeeSchema, insertTaskSchema and their      *)
(* .partial() variants. A body is a function from the keys it carries to   *)
(* their values; a key it does not carry is undefined.                     *)
(***************************************************************************)
EmployeeFields == {"name", "email", "department", "position"}
TaskFields == {"title", "description", "status", "employeeId", "dueDate", "priority"}

Statuses == {"pending", "in-progress", "completed"}
Priorities == {"low", "medium", "high"}

MaxNameLen == 100
MaxTitleLen == 200
MaxDescriptionLen == 1000

Has(body, f) == f \in DOMAIN body

Restrict(body, fields) == [f \in (DOMAIN body) \cap fields |-> body[f]]

RECURSIVE SplitAt(_, _, _)
\* the pieces of s between occurrences of character c, from position i on
SplitAt(s, c, i) ==
    LET rest == {j \in i..Len(s) : Char(s, j) = c}
    IN IF rest = {} THEN <<SubSeq(s, i, Len(s))>>
       ELSE LET j == CHOOSE k \in rest : \A m \in rest : k <= m
            IN <<SubSeq(s, i, j - 1)>> \o SplitAt(s, c, j + 1)

AllIn(s, set) == \A i \in 1..Len(s) : Char(s, i) \in set

\* z.string().email():
\* /^(?!\.)(?!.*\.\.)([A-Z0-9_'+\-\.]*)[A-Z0-9_+-]@([A-Z0-9][A-Z0-9\-]*\.)+[A-Z]{2,}$/i
IsEmail(s) ==
    LET parts == SplitAt(s, "@", 1)
        local == parts[1]
        labels == SplitAt(parts[2], ".", 1)
        alnum == Letters \cup Digits
    IN /\ Len(parts) = 2
       /\ Len(local) >= 1
       /\ Char(s, 1) # "."
       /\ ~Includes(s, "..")
       /\ AllIn(local, alnum \cup {"_", "'", "+", "-", "."})
       /\ Char(local, Len(local)) \in alnum \cup {"_", "+", "-"}
       /\ Len(labels) >= 2
       /\ \A k \in 1..(Len(labels) - 1) :
            /\ Len(labels[k]) >= 1
            /\ Char(labels[k], 1) \in alnum
            /\ AllIn(labels[k], alnum \cup {"-"})
       /\ Len(labels[Len(labels)]) >= 2
       /\ AllIn(labels[Len(labels)], Letters)

\* /^\d{4}-\d{2}-\d{2}$/
IsDateShape(s) ==
    /\ Len(s) = 10
    /\ \A i \in {1, 2, 3, 4, 6, 7, 9, 10} : Char(s, i) \in Digits
    /\ Char(s, 5) = "-"
    /\ Char(s, 8) = "-"

\* z.string({required_error}).min(1, required).max(max, tooLong): every
\* failing check adds its message
StringIssues(body, f, partial, required, max, tooLong) ==
    IF ~Has(body, f) THEN (IF partial THEN <<>> ELSE <<required>>)
    ELSE (IF Len(body[f]) < 1 THEN <<required>> ELSE <<>>)
         \o (IF max > 0 /\ Len(body[f]) > max THEN <<tooLong>> ELSE <<>>)

EmailIssues(body, partial) ==
    IF ~Has(body, "email") THEN (IF partial THEN <<>> ELSE <<"Email is required">>)
    ELSE (IF Len(body["email"]) < 1 THEN <<"Email is required">> ELSE <<>>)
         \o (IF ~IsEmail(body["email"]) THEN <<"Invalid email format">> ELSE <<>>)

\* insertEmployeeSchema.safeParse(body).error.errors.map(e => e.message)
EmployeeIssues(body, partial) ==
    StringIssues(body, "name", partial, "Name is required", MaxNameLen,
                 "Name must be less than 100 characters")
    \o EmailIssues(body, partial)
    \o StringIssues(body, "department", partial, "Department is required", 0, "")
    \o StringIssues(body, "position", partial, "Position is required", 0, "")

\* insertEmployeeSchema.safeParse(body).data: unknown keys are stripped
EmployeeData(body) == Restrict(body, EmployeeFields)

EnumIssues(body, f, values, message) ==
    IF Has(body, f) /\ body[f] \notin values THEN <<message>> ELSE <<>>

\* insertTaskSchema.safeParse(body).error.errors.map(e => e.message)
TaskIssues(body, partial) ==
    StringIssues(body, "title", partial, "Title is required", MaxTitleLen,
                 "Title must be less than 200 characters")
    \o (IF Has(body, "description") /\ body["description"] # Null
           /\ Len(body["description"]) > MaxDescriptionLen
        THEN <<"Description must be less than 1000 characters">> ELSE <<>>)
    \o EnumIssues(body, "status", Statuses,
                  "Status must be 'pending', 'in-progress', or 'completed'")
    \o (IF ~Has(body, "employeeId")
        THEN (IF partial THEN <<>> ELSE <<"Employee ID is required">>)
        ELSE IF body["employeeId"] <= 0 THEN <<"Employee ID must be positive">>
        ELSE <<>>)
    \o (IF Has(body, "dueDate") /\ body["dueDate"] # Null
           /\ ~IsDateShape(body["dueDate"])
        THEN <<"Due date must be in YYYY-MM-DD format">> ELSE <<>>)
    \o EnumIssues(body, "priority", Priorities,
                  "Priority must be 'low', 'medium', or 'high'")

\* the defaults of status and priority filled in by the partial schema too
TaskDataDefaults(body, partial) ==
    LET known == Restrict(body, TaskFields)
    IN [f \in (DOMAIN known) \cup {"status", "priority"} |->
          IF f \in DOMAIN known THEN known[f]
          ELSE IF f = "status" THEN "pending" ELSE "medium"]

\* insertTaskSchema.safeParse(body).data: unknown keys are stripped; the
\* create schema fills the defaults of status and priority, the partial
\* schema leaves an absent key undefined
TaskData(body, partial) ==
    LET known == Restrict(body, TaskFields)
    IN IF partial THEN known
       ELSE [f \in (DOMAIN known) \cup {"status", "priority"} |->
               IF f \in DOMAIN known THEN known[f]
               ELSE IF f = "status" THEN "pending" ELSE "medium"]

(***************************************************************************)
(* database/seed.ts: the fixed sample set.                                 *)
(***************************************************************************)
SeedEmployees == <<
    <<"Raj Patel", "raj.patel@company.com", "Engineering", "Senior Developer">>,
    <<"Priya Sharma", "priya.sharma@company.com", "Marketing", "Content Manager">>,
    <<"Arjun Singh", "arjun.singh@company.com", "Sales", "Sales Representative">>,
    <<"Divya Gupta", "divya.gupta@company.com", "HR", "HR Manager">>,
    <<"Aditya Kumar", "aditya.kumar@company.com", "Engineering", "Frontend Developer">>,
    <<"Neha Malhotra", "neha.malhotra@company.com", "Design", "UI/UX Designer">>,
    <<"Rohan Verma", "rohan.verma@company.com", "Product", "Product Manager">>,
    <<"Anjali Nair", "anjali.nair@company.com", "Finance", "Financial Analyst">> >>

SeedTasks == <<
    <<"Fix login authentication bug", "Users cannot login with special characters in password", "in-progress", 1, "2025-02-01", "high">>,
    <<"Implement user dashboard", "Create main dashboard with key metrics", "pending", 1, "2025-02-15", "high">>,
    <<"Code review for API endpoints", "Review and approve new REST API endpoints", "completed", 1, "2025-01-20", "medium">>,
    <<"Create Q1 marketing campaign", "Design and launch Q1 digital marketing campaign", "in-progress", 2, "2025-02-28", "high">>,
    <<"Update social media content", "Refresh company social media profiles", "pending", 2, "2025-02-10", "low">>,
    <<"Write blog post on new features", "Technical blog post about latest product updates", "completed", 2, "2025-01-15", "medium">>,
    <<"Contact enterprise leads", "Follow up with potential enterprise clients", "in-progress", 3, "2025-02-05", "high">>,
    <<"Prepare sales presentation", "Create Q1 sales deck for team meeting", "pending", 3, "2025-02-20", "medium">>,
    <<"Update CRM records", "Clean and update customer database", "completed", 3, "2025-01-18", "low">>,
    <<"Conduct employee interviews", "Interview candidates for open positions", "in-progress", 4, "2025-02-08", "high">>,
    <<"Update employee handbook", "Review and update company policies", "pending", 4, "2025-03-01", "medium">>,
    <<"Plan team building event", "Organize quarterly team building activity", "completed", 4, "2025-01-25", "low">>,
    <<"Optimize database queries", "Improve performance of slow database operations", "pending", 5, "2025-02-12", "high">>,
    <<"Build responsive components", "Create mobile-responsive UI components", "in-progress", 5, "2025-02-18", "medium">>,
    <<"Fix CSS styling issues", "Resolve cross-browser compatibility problems", "completed", 5, "2025-01-22", "low">>,
    <<"Design new landing page", "Create mockups for product landing page", "in-progress", 6, "2025-02-14", "high">>,
    <<"Create icon set", "Design custom icons for the application", "pending", 6, "2025-02-25", "medium">>,
    <<"User research interviews", "Conduct UX research with target users", "completed", 6, "2025-01-28", "medium">>,
    <<"Write product requirements", "Document PRD for new feature release", "in-progress", 7, "2025-02-10", "high">>,
    <<"Analyze user feedback", "Review and categorize customer feedback", "pending", 7, "2025-02-22", "medium">>,
    <<"Roadmap planning session", "Plan product roadmap for Q2", "completed", 7, "2025-01-30", "high">>,
    <<"Prepare financial report", "Create monthly financial summary", "pending", 8, "2025-02-05", "high">>,
    <<"Budget analysis for Q1", "Analyze department budget allocations", "in-progress", 8, "2025-02-15", "medium">>,
    <<"Audit expense reports", "Review and approve team expenses", "completed", 8, "2025-01-20", "low">> >>

(***************************************************************************)
(* database/migrations.ts: the rows of the two tables and their            *)
(* constraints.                                                            *)
(***************************************************************************)
EmployeeRow(name, email, department, position, createdAt) ==
    [name |-> name, email |-> email, department |-> department,
     position |-> position, createdAt |-> createdAt]

TaskRow(title, description, status, employeeId, dueDate, priority, createdAt, updatedAt) ==
    [title |-> title, description |-> description, status |-> status,
     employeeId |-> employeeId, dueDate |-> dueDate, priority |-> priority,
     createdAt |-> createdAt, updatedAt |-> updatedAt]

\* no UNIQUE constraint on email
UniqueEmailOff(emps, id, email) == TRUE

\* a uniqueness test that counts the row being written itself
UniqueEmailAnyRow(emps, id, email) ==
    \A e \in DOMAIN emps : emps[e].email # email

\* deleted seed rows kept as tombstones that still hold their email
UniqueEmailTombstones(emps, id, email) ==
    /\ \A e \in DOMAIN emps : e # id => emps[e].email # email
    /\ \A i \in 1..Len(SeedEmployees) :
         (i \notin DOMAIN emps /\ i # id) => SeedEmployees[i][2] # email

\* email TEXT NOT NULL UNIQUE (BINARY collation: an exact match), over the
\* table emps with row id given the email
UniqueEmailOk(emps, id, email) ==
    \A e \in DOMAIN emps : e # id => emps[e].email # email

\* PRAGMA foreign_keys = ON; FOREIGN KEY (employee_id) REFERENCES employees(id)
ForeignKeyOk(emps, employeeId) == employeeId \in DOMAIN emps

\* CHECK(status IN ...), CHECK(priority IN ...)
CheckOk(row) == row.status \in Statuses /\ row.priority \in Priorities

\* the largest rowid of the table, 0 when it is empty
MaxRowId(table) ==
    IF DOMAIN table = {} THEN 0
    ELSE CHOOSE m \in DOMAIN table : \A k \in DOMAIN table : k <= m

\* rowid selection without AUTOINCREMENT: one more than the largest rowid
\* now in the table
NextRowIdNoAutoincrement(seq, table) == MaxRowId(table) + 1

\* INTEGER PRIMARY KEY AUTOINCREMENT: one more than the largest rowid the
\* table ever held (sqlite_sequence)
NextRowId(seq, table) == Max(seq, MaxRowId(table)) + 1

\* foreign keys not enforced: deleting an employee leaves its tasks
CascadeDeleteOff(tsks, id) == tsks

\* a cascade keyed on the employee a seed task was inserted with, blind to a
\* later reassignment
CascadeDeleteFirstOwner(tsks, id) ==
    [t \in {u \in DOMAIN tsks :
              (IF u <= Len(SeedTasks) THEN SeedTasks[u][4] ELSE tsks[u].employeeId) # id}
       |-> tsks[t]]

\* ON DELETE CASCADE: the tasks that remain once employee id is deleted
CascadeDelete(tsks, id) ==
    [t \in {u \in DOMAIN tsks : tsks[u].employeeId # id} |-> tsks[t]]

(***************************************************************************)
(* storage.ts:6-7: runMigrations(); seedDatabase() on a new database file. *)
(***************************************************************************)
Init ==
    /\ employees = [i \in 1..Len(SeedEmployees) |->
                      EmployeeRow(SeedEmployees[i][1], SeedEmployees[i][2],
                                  SeedEmployees[i][3], SeedEmployees[i][4], 0)]
    /\ tasks = [i \in 1..Len(SeedTasks) |->
                  TaskRow(SeedTasks[i][1], SeedTasks[i][2], SeedTasks[i][3],
                          SeedTasks[i][4], SeedTasks[i][5], SeedTasks[i][6], 0, 0)]
    /\ seqEmployees = Len(SeedEmployees)
    /\ seqTasks = Len(SeedTasks)
    /\ now = 0
    /\ everEmployeeIds = 1..Len(SeedEmployees)
    /\ everTaskIds = 1..Len(SeedTasks)
    /\ requests = 0
    /\ last = [op |-> "start", id |-> NoId, body |-> <<>>, status |-> 0,
               error |-> "", result |-> <<>>, sent |-> 0]
    /\ updatingTaskId = <<>>
    /\ mutations = <<>>

\* a step of the server alone: the Tasks page does nothing
ClientIdle == UNCHANGED <<updatingTaskId, mutations>>

\* the clock advances by one second
Tick ==
    /\ now < MaxTime
    /\ now' = now + 1
    /\ UNCHANGED <<employees, tasks, seqEmployees, seqTasks,
                   everEmployeeIds, everTaskIds, requests, last>>
    /\ UNCHANGED <<updatingTaskId, mutations>>

(***************************************************************************)
(* storage.ts: SQLiteStorage. A call either throws (error is the message   *)
(* of the SqliteError, the statement having changed nothing) or returns    *)
(* (found: it returned a row, or true) and leaves the tables as given.     *)
(***************************************************************************)
Threw(message) ==
    [error |-> message, found |-> FALSE, id |-> 0,
     employees |-> employees, tasks |-> tasks,
     seqEmployees |-> seqEmployees, seqTasks |-> seqTasks]

Returned(found, id, emps, tsks, seqE, seqT) ==
    [error |-> "", found |-> found, id |-> id,
     employees |-> emps, tasks |-> tsks,
     seqEmployees |-> seqE, seqTasks |-> seqT]

getEmployeeById(id) == id \in DOMAIN employees

\* SELECT * FROM employees ORDER BY name: the ids of the rows returned
getAllEmployees == DOMAIN employees

\* SELECT t.* FROM tasks t JOIN employees e ON t.employee_id = e.id, with no
\* filter: the ids of the rows returned
getAllTasks == {t \in DOMAIN tasks : tasks[t].employeeId \in DOMAIN employees}

createEmployee(data) ==
    LET id == NextRowId(seqEmployees, employees)
        row == EmployeeRow(data["name"], data["email"], data["department"],
                           data["position"], now)
    IN IF ~UniqueEmailOk(employees, id, data["email"])
       THEN Threw("UNIQUE constraint failed: employees.email")
       ELSE Returned(TRUE, id, (id :> row) @@ employees, tasks, id, seqTasks)

\* the row after UPDATE ... SET <the keys of data> applied to row
PatchRow(row, data, fields) ==
    [f \in DOMAIN row |-> IF f \in (DOMAIN data) \cap fields THEN data[f] ELSE row[f]]

\* one UPDATE per column, the email last: the other columns are written
\* before the UNIQUE constraint fails
updateEmployeeFieldwise(id, data) ==
    IF ~getEmployeeById(id) THEN Returned(FALSE, id, employees, tasks, seqEmployees, seqTasks)
    ELSE IF (DOMAIN data) \cap EmployeeFields = {}
    THEN Returned(TRUE, id, employees, tasks, seqEmployees, seqTasks)
    ELSE LET row == PatchRow(employees[id], data, EmployeeFields)
             others == PatchRow(employees[id], data, EmployeeFields \ {"email"})
         IN IF ~UniqueEmailOk(employees, id, row.email)
            THEN [Threw("UNIQUE constraint failed: employees.email")
                    EXCEPT !.employees = [employees EXCEPT ![id] = others]]
            ELSE Returned(TRUE, id, [employees EXCEPT ![id] = row], tasks,
                          seqEmployees, seqTasks)

updateEmployee(id, data) ==
    IF ~getEmployeeById(id) THEN Returned(FALSE, id, employees, tasks, seqEmployees, seqTasks)
    ELSE IF (DOMAIN data) \cap EmployeeFields = {}
    THEN Returned(TRUE, id, employees, tasks, seqEmployees, seqTasks)
    ELSE LET row == PatchRow(employees[id], data, EmployeeFields)
         IN IF ~UniqueEmailOk(employees, id, row.email)
            THEN Threw("UNIQUE constraint failed: employees.email")
            ELSE Returned(TRUE, id, [employees EXCEPT ![id] = row], tasks,
                          seqEmployees, seqTasks)

\* DELETE FROM employees alone, the employee's tasks kept
deleteEmployeeOnly(id) ==
    IF id \notin DOMAIN employees
    THEN Returned(FALSE, id, employees, tasks, seqEmployees, seqTasks)
    ELSE Returned(TRUE, id,
                  [e \in (DOMAIN employees) \ {id} |-> employees[e]],
                  tasks, seqEmployees, seqTasks)

deleteEmployee(id) ==
    IF id \notin DOMAIN employees
    THEN Returned(FALSE, id, employees, tasks, seqEmployees, seqTasks)
    ELSE Returned(TRUE, id,
                  [e \in (DOMAIN employees) \ {id} |-> employees[e]],
                  CascadeDelete(tasks, id), seqEmployees, seqTasks)

\* x || fallback for a key that may be absent, null or the empty string
OrElse(data, f, fallback) ==
    IF Has(data, f) /\ data[f] # Null /\ data[f] # "" THEN data[f] ELSE fallback

createTask(data) ==
    LET id == NextRowId(seqTasks, tasks)
        row == TaskRow(data["title"], OrElse(data, "description", Null),
                       OrElse(data, "status", "pending"), data["employeeId"],
                       OrElse(data, "dueDate", Null),
                       OrElse(data, "priority", "medium"), now, now)
    IN IF ~CheckOk(row) THEN Threw("CHECK constraint failed: tasks")
       ELSE IF ~ForeignKeyOk(employees, row.employeeId)
       THEN Threw("FOREIGN KEY constraint failed")
       ELSE Returned(TRUE, id, employees, (id :> row) @@ tasks, seqEmployees, id)

\* updated_at left as it was
NotRefreshed(row) == row.updatedAt

\* updated_at = CURRENT_TIMESTAMP
RefreshedAt(row) == now

\* the row written anew (INSERT OR REPLACE), so that created_at takes its
\* default again
updateTaskResetsCreatedAt(id, data) ==
    IF id \notin DOMAIN tasks
    THEN Returned(FALSE, id, employees, tasks, seqEmployees, seqTasks)
    ELSE LET patched == PatchRow(tasks[id], data, TaskFields)
             row == [patched EXCEPT !.updatedAt = now, !.createdAt = now]
         IN Returned(TRUE, id, employees, [tasks EXCEPT ![id] = row],
                     seqEmployees, seqTasks)

updateTask(id, data) ==
    IF id \notin DOMAIN tasks
    THEN Returned(FALSE, id, employees, tasks, seqEmployees, seqTasks)
    ELSE LET patched == PatchRow(tasks[id], data, TaskFields)
             row == [patched EXCEPT !.updatedAt = RefreshedAt(tasks[id])]
         IN IF ~CheckOk(row) THEN Threw("CHECK constraint failed: tasks")
            ELSE IF ~ForeignKeyOk(employees, row.employeeId)
            THEN Threw("FOREIGN KEY constraint failed")
            ELSE Returned(TRUE, id, employees, [tasks EXCEPT ![id] = row],
                          seqEmployees, seqTasks)

\* return true whether or not a row was deleted
deleteTaskAlwaysTrue(id) ==
    Returned(TRUE, id, employees, [t \in (DOMAIN tasks) \ {id} |-> tasks[t]],
             seqEmployees, seqTasks)

deleteTask(id) ==
    IF id \notin DOMAIN tasks
    THEN Returned(FALSE, id, employees, tasks, seqEmployees, seqTasks)
    ELSE Returned(TRUE, id, employees, [t \in (DOMAIN tasks) \ {id} |-> tasks[t]],
                  seqEmployees, seqTasks)

RECURSIVE OrderByDesc(_, _)
\* ORDER BY key DESC over the rows ids: the largest key first, rows of equal
\* key in the order of the scan (ascending rowid)
OrderByDesc(ids, key) ==
    IF ids = {} THEN <<>>
    ELSE LET first == CHOOSE i \in ids :
                        \A j \in ids : key[i] > key[j] \/ (key[i] = key[j] /\ i <= j)
         IN <<first>> \o OrderByDesc(ids \ {first}, key)

\* SELECT * FROM tasks WHERE employee_id = ? ORDER BY created_at DESC: the ids
\* of the rows, in order
TasksOf(id) ==
    OrderByDesc({t \in DOMAIN tasks : tasks[t].employeeId = id},
                [t \in DOMAIN tasks |-> tasks[t].createdAt])

\* { ...employee, tasks }, or undefined (found is FALSE)
getEmployeeWithTasks(id) ==
    IF ~getEmployeeById(id) THEN [found |-> FALSE]
    ELSE [found |-> TRUE, id |-> id, row |-> employees[id],
          tasks |-> [i \in 1..Len(TasksOf(id)) |->
                       [id |-> TasksOf(id)[i], row |-> tasks[TasksOf(id)[i]]]]]

\* if (filters?.status): the status filter is applied
StatusFiltered(filters) == Has(filters, "status") /\ filters["status"] # ""

\* if (filters?.employeeId): the employee filter is applied
EmployeeFiltered(filters) == Has(filters, "employeeId") /\ filters["employeeId"] # 0

\* getAllTasks(filters): SELECT t.*, e.name FROM tasks t JOIN employees e
\* [WHERE conditions] ORDER BY t.created_at DESC
getAllTasksFiltered(filters) ==
    LET rows == {t \in DOMAIN tasks :
                   /\ tasks[t].employeeId \in DOMAIN employees
                   /\ StatusFiltered(filters) => tasks[t].status = filters["status"]
                   /\ EmployeeFiltered(filters)
                        => tasks[t].employeeId = filters["employeeId"]}
        order == OrderByDesc(rows, [t \in DOMAIN tasks |-> tasks[t].createdAt])
    IN [i \in 1..Len(order) |->
          [id |-> order[i], row |-> tasks[order[i]],
           employeeName |-> employees[tasks[order[i]].employeeId].name]]

\* SELECT t.*, e.name, e.email FROM tasks t JOIN employees e WHERE t.id = ?
getTaskById(id) ==
    IF id \in DOMAIN tasks /\ tasks[id].employeeId \in DOMAIN employees
    THEN [found |-> TRUE, id |-> id, row |-> tasks[id],
          employeeName |-> employees[tasks[id].employeeId].name,
          employeeEmail |-> employees[tasks[id].employeeId].email]
    ELSE [found |-> FALSE]

(***************************************************************************)
(* JavaScript Numbers: IEEE 754 binary64 values, as far as                 *)
(* Math.round((completedTasks / totalTasks) * 100) needs them. A positive  *)
(* Number is its 53 significand bits m, most significant (a 1) first, and  *)
(* the exponent e of m[1]: the value is the sum of m[i] * 2^(e - i + 1).   *)
(***************************************************************************)
SignificandBits == 53

\* the w low bits of n, most significant first
BitsOf(n, w) == [j \in 1..w |-> (n \div 2^(w - j)) % 2]

RECURSIVE BitsValue(_)
\* the integer the bits spell
BitsValue(bits) ==
    IF Len(bits) = 0 THEN 0
    ELSE IF Len(bits) = 1 THEN bits[1]
    ELSE LET h == Len(bits) \div 2
         IN BitsValue(SubSeq(bits, 1, h)) * 2^(Len(bits) - h)
            + BitsValue(SubSeq(bits, h + 1, Len(bits)))

RECURSIVE QuotientBits(_, _, _)
\* the next n bits of the binary expansion of r / d, for 0 <= r < d, taken
\* 18 at a time
QuotientBits(r, d, n) ==
    IF n = 0 THEN <<>>
    ELSE LET w == IF n < 18 THEN n ELSE 18
         IN BitsOf((r * 2^w) \div d, w) \o QuotientBits((r * 2^w) % d, d, n - w)

RECURSIVE QuotientRest(_, _, _)
\* the remainder left after those n bits
QuotientRest(r, d, n) ==
    IF n = 0 THEN r
    ELSE LET w == IF n < 18 THEN n ELSE 18
         IN QuotientRest((r * 2^w) % d, d, n - w)

\* the bits plus one, at the same length (all zeros when it overflows)
Increment(bits) ==
    LET zeros == {i \in 1..Len(bits) : bits[i] = 0}
        p == IF zeros = {} THEN 0 ELSE CHOOSE i \in zeros : \A j \in zeros : j <= i
    IN [i \in 1..Len(bits) |-> IF i < p THEN bits[i] ELSE IF i = p THEN 1 ELSE 0]

\* round to nearest, ties to even: the Number nearest to the value whose
\* bits (first bit 1, of exponent e) are followed by a non-zero rest when
\* sticky
RoundToNumber(bits, sticky, e) ==
    LET kept == SubSeq(bits, 1, SignificandBits)
        guard == Len(bits) > SignificandBits /\ bits[SignificandBits + 1] = 1
        rest == sticky \/ \E i \in (SignificandBits + 2)..Len(bits) : bits[i] = 1
        up == guard /\ (rest \/ kept[SignificandBits] = 1)
        inc == Increment(kept)
    IN IF ~up THEN [zero |-> FALSE, m |-> kept, e |-> e]
       ELSE IF inc[1] = 1 THEN [zero |-> FALSE, m |-> inc, e |-> e]
       ELSE [zero |-> FALSE, m |-> [inc EXCEPT ![1] = 1], e |-> e + 1]

RECURSIVE Doublings(_, _)
\* the least k with a * 2^k >= b, for a >= 1
Doublings(a, b) == IF a >= b THEN 0 ELSE 1 + Doublings(2 * a, b)

RECURSIVE TimesPowerOfTwo(_, _)
TimesPowerOfTwo(a, k) == IF k = 0 THEN a ELSE TimesPowerOfTwo(2 * a, k - 1)

\* a / b for integers 0 <= a <= b, 0 < b
NumberDivide(a, b) ==
    IF a = 0 THEN [zero |-> TRUE, m |-> <<>>, e |-> 0]
    ELSE LET k == Doublings(a, b)
             r == TimesPowerOfTwo(a, k) - b
         IN RoundToNumber(<<1>> \o QuotientBits(r, b, SignificandBits),
                          QuotientRest(r, b, SignificandBits) # 0, 0 - k)

RECURSIVE ToBits(_)
ToBits(n) == IF n = 0 THEN <<>> ELSE ToBits(n \div 2) \o <<n % 2>>

RECURSIVE TimesSmall(_, _, _)
\* the bits of bits * k + carry, the bits taken 18 at a time from the low end
TimesSmall(bits, k, carry) ==
    IF Len(bits) = 0 THEN ToBits(carry)
    ELSE LET w == IF Len(bits) < 18 THEN Len(bits) ELSE 18
             v == BitsValue(SubSeq(bits, Len(bits) - w + 1, Len(bits))) * k + carry
         IN TimesSmall(SubSeq(bits, 1, Len(bits) - w), k, v \div 2^w)
            \o BitsOf(v % 2^w, w)

\* x * k for a Number x >= 0 and a small integer k >= 1
NumberTimes(x, k) ==
    IF x.zero THEN x
    ELSE LET product == TimesSmall(x.m, k, 0)
         IN RoundToNumber(product, FALSE, x.e + Len(product) - SignificandBits)

\* Math.round(x) for a Number 0 <= x < 2^52: the nearest integer, a half
\* rounded up
MathRound(x) ==
    IF x.zero \/ x.e < 0 - 1 THEN 0
    ELSE IF x.e = 0 - 1 THEN 1
    ELSE BitsValue(SubSeq(x.m, 1, x.e + 1)) + x.m[x.e + 2]

\* totalTasks > 0 ? Math.round((completedTasks / totalTasks) * 100) : 0
CompletionRate(completed, total) ==
    IF total > 0 THEN MathRound(NumberTimes(NumberDivide(completed, total), 100)) ELSE 0

CountStatus(status) == Cardinality({t \in DOMAIN tasks : tasks[t].status = status})

\* FROM employees e JOIN tasks t: only the employees that have a task
InnerJoinedEmployees ==
    {e \in DOMAIN employees : \E t \in DOMAIN tasks : tasks[t].employeeId = e}

\* FROM employees e LEFT JOIN tasks t ON e.id = t.employee_id GROUP BY e.id:
\* the groups, one per employee, an employee without tasks included
LeftJoinedEmployees == DOMAIN employees

\* COUNT(t.id) of the group of employee e
TaskCount(e) == Cardinality({t \in DOMAIN tasks : tasks[t].employeeId = e})

\* SELECT e.id, e.name, COUNT(t.id) as taskCount ... ORDER BY taskCount DESC
tasksByEmployee ==
    LET order == OrderByDesc(LeftJoinedEmployees,
                             [e \in DOMAIN employees |-> TaskCount(e)])
    IN [i \in 1..Len(order) |->
          [employeeId |-> order[i], employeeName |-> employees[order[i]].name,
           taskCount |-> TaskCount(order[i])]]

getDashboardStats ==
    LET totalTasks == Cardinality(DOMAIN tasks)
        completedTasks == CountStatus("completed")
    IN [totalTasks |-> totalTasks,
        completedTasks |-> completedTasks,
        completionRate |-> CompletionRate(completedTasks, totalTasks),
        tasksByStatus |-> [pending |-> CountStatus("pending"),
                           inProgress |-> CountStatus("in-progress"),
                           completed |-> completedTasks],
        tasksByEmployee |-> tasksByEmployee]

(***************************************************************************)
(* routes.ts: the handlers. Each handles one request to its response.      *)
(***************************************************************************)
NoResult == <<>>

\* one res.status(status).json({ error })
Response(status, error) == [status |-> status, error |-> error]

\* the handler has run to its end, having called res.json once for each
\* element of sent, with the store as the call r left it; the client gets
\* the first response
RespondAll(op, id, body, sent, result, r) ==
    /\ employees' = r.employees
    /\ tasks' = r.tasks
    /\ seqEmployees' = r.seqEmployees
    /\ seqTasks' = r.seqTasks
    /\ everEmployeeIds' = everEmployeeIds \cup DOMAIN r.employees
    /\ everTaskIds' = everTaskIds \cup DOMAIN r.tasks
    /\ requests' = requests + 1
    /\ last' = [op |-> op, id |-> id, body |-> body,
                status |-> IF sent = <<>> THEN 0 ELSE sent[1].status,
                error |-> IF sent = <<>> THEN "" ELSE sent[1].error,
                result |-> result, sent |-> Len(sent)]
    /\ UNCHANGED now

\* return res.status(status).json(...): the one response of its path
Respond(op, id, body, status, error, result, r) ==
    RespondAll(op, id, body, <<Response(status, error)>>, result, r)

\* the catch block without its return: the 500 follows the 400
CatchUniqueFallsThrough(message, failed) ==
    (IF Includes(message, "UNIQUE constraint")
     THEN <<Response(400, "Email already exists")>> ELSE <<>>)
    \o <<Response(500, failed)>>

\* catch (error) { if (error.message?.includes("UNIQUE constraint")) return
\* res.status(400)...; res.status(500)... }: the responses it sends
CatchUnique(message, failed) ==
    IF Includes(message, "UNIQUE constraint")
    THEN <<Response(400, "Email already exists")>>
    ELSE <<Response(500, failed)>>

\* a response sent without a store write
Unchanged == Returned(FALSE, 0, employees, tasks, seqEmployees, seqTasks)

EmployeeResult(r) == [id |-> r.id, row |-> r.employees[r.id]]
TaskResult(r) == [id |-> r.id, row |-> r.tasks[r.id]]

\* app.post("/api/employees")
PostEmployee(body) ==
    LET op == "POST /api/employees"
        issues == EmployeeIssues(body, FALSE)
        r == createEmployee(EmployeeData(body))
    IN /\ requests < MaxRequests
       /\ IF issues # <<>>
          THEN Respond(op, NoId, body, 400, Join(issues), NoResult, Unchanged)
          ELSE IF r.error # ""
          THEN RespondAll(op, NoId, body,
                          CatchUnique(r.error, "Failed to create employee"), NoResult, r)
          ELSE Respond(op, NoId, body, 201, "", EmployeeResult(r), r)

\* app.put("/api/employees/:id")
PutEmployee(param, body) ==
    LET op == "PUT /api/employees/:id"
        id == ParseInt(param)
        issues == EmployeeIssues(body, TRUE)
        r == updateEmployee(id.n, EmployeeData(body))
    IN /\ requests < MaxRequests
       /\ IF id.nan
          THEN Respond(op, param, body, 400, "Invalid employee ID", NoResult, Unchanged)
          ELSE IF issues # <<>>
          THEN Respond(op, param, body, 400, Join(issues), NoResult, Unchanged)
          ELSE IF r.error # ""
          THEN RespondAll(op, param, body,
                          CatchUnique(r.error, "Failed to update employee"), NoResult, r)
          ELSE IF ~r.found
          THEN Respond(op, param, body, 404, "Employee not found", NoResult, r)
          ELSE Respond(op, param, body, 200, "", EmployeeResult(r), r)

\* app.delete("/api/employees/:id")
DeleteEmployee(param) ==
    LET op == "DELETE /api/employees/:id"
        id == ParseInt(param)
        r == deleteEmployee(id.n)
    IN /\ requests < MaxRequests
       /\ IF id.nan
          THEN Respond(op, param, <<>>, 400, "Invalid employee ID", NoResult, Unchanged)
          ELSE IF ~r.found
          THEN Respond(op, param, <<>>, 404, "Employee not found", NoResult, r)
          ELSE Respond(op, param, <<>>, 200, "", NoResult, r)

\* no look-up of the employee before the insert
TaskBodyEmployeeUnchecked(data) == FALSE

\* const employee = storage.getEmployeeById(data.employeeId); if (!employee) return 400
TaskBodyEmployeeMissing(data) == ~getEmployeeById(data["employeeId"])

\* app.post("/api/tasks")
PostTask(body) ==
    LET op == "POST /api/tasks"
        issues == TaskIssues(body, FALSE)
        data == TaskData(body, FALSE)
        r == createTask(data)
    IN /\ requests < MaxRequests
       /\ IF issues # <<>>
          THEN Respond(op, NoId, body, 400, Join(issues), NoResult, Unchanged)
          ELSE IF TaskBodyEmployeeMissing(data)
          THEN Respond(op, NoId, body, 400, "Employee not found", NoResult, Unchanged)
          ELSE IF r.error # ""
          THEN Respond(op, NoId, body, 500, "Failed to create task", NoResult, r)
          ELSE Respond(op, NoId, body, 201, "", TaskResult(r), r)

\* no look-up of the employee before the update
TaskPatchEmployeeUnchecked(data) == FALSE

\* if (validationResult.data.employeeId) { if (!employee) return 400 }
TaskPatchEmployeeMissing(data) ==
    /\ Has(data, "employeeId")
    /\ data["employeeId"] # 0
    /\ ~getEmployeeById(data["employeeId"])

\* app.put("/api/tasks/:id")
PutTask(param, body) ==
    LET op == "PUT /api/tasks/:id"
        id == ParseInt(param)
        issues == TaskIssues(body, TRUE)
        data == TaskData(body, TRUE)
        r == updateTask(id.n, data)
    IN /\ requests < MaxRequests
       /\ IF id.nan
          THEN Respond(op, param, body, 400, "Invalid task ID", NoResult, Unchanged)
          ELSE IF issues # <<>>
          THEN Respond(op, param, body, 400, Join(issues), NoResult, Unchanged)
          ELSE IF TaskPatchEmployeeMissing(data)
          THEN Respond(op, param, body, 400, "Employee not found", NoResult, Unchanged)
          ELSE IF r.error # ""
          THEN Respond(op, param, body, 500, "Failed to update task", NoResult, r)
          ELSE IF ~r.found
          THEN Respond(op, param, body, 404, "Task not found", NoResult, r)
          ELSE Respond(op, param, body, 200, "", TaskResult(r), r)

\* app.delete("/api/tasks/:id")
DeleteTask(param) ==
    LET op == "DELETE /api/tasks/:id"
        id == ParseInt(param)
        r == deleteTask(id.n)
    IN /\ requests < MaxRequests
       /\ IF id.nan
          THEN Respond(op, param, <<>>, 400, "Invalid task ID", NoResult, Unchanged)
          ELSE IF ~r.found
          THEN Respond(op, param, <<>>, 404, "Task not found", NoResult, r)
          ELSE Respond(op, param, <<>>, 200, "", NoResult, r)

\* app.get("/api/dashboard")
GetDashboard ==
    /\ requests < MaxRequests
    /\ Respond("GET /api/dashboard", NoId, <<>>, 200, "", getDashboardStats, Unchanged)

\* app.get("/api/health"); the timestamp to the second
GetHealth ==
    /\ requests < MaxRequests
    /\ Respond("GET /api/health", NoId, <<>>, 200, "",
               [status |-> "OK", message |-> "Employee Task Tracker API is running",
                timestamp |-> now], Unchanged)

\* app.get("/api/employees")
GetEmployees ==
    /\ requests < MaxRequests
    /\ Respond("GET /api/employees", NoId, <<>>, 200, "",
               {[id |-> e, row |-> employees[e]] : e \in getAllEmployees}, Unchanged)

\* app.get("/api/employees/:id")
GetEmployee(param) ==
    LET op == "GET /api/employees/:id"
        id == ParseInt(param)
        employee == getEmployeeWithTasks(id.n)
    IN /\ requests < MaxRequests
       /\ IF id.nan
          THEN Respond(op, param, <<>>, 400, "Invalid employee ID", NoResult, Unchanged)
          ELSE IF ~employee.found
          THEN Respond(op, param, <<>>, 404, "Employee not found", NoResult, Unchanged)
          ELSE Respond(op, param, <<>>, 200, "", employee, Unchanged)

\* req.query.x used as a condition: the parameter is present and not empty
Supplied(query, f) == Has(query, f) /\ query[f] # ""

\* { status, employeeId } as the handler passes it to getAllTasks: status is
\* req.query.status, employeeId is parseInt(req.query.employee_id) when that
\* parameter is supplied
TaskFilters(query) ==
    [f \in (IF Has(query, "status") THEN {"status"} ELSE {})
             \cup (IF Supplied(query, "employee_id") THEN {"employeeId"} ELSE {}) |->
        IF f = "status" THEN query["status"] ELSE ParseInt(query["employee_id"]).n]

\* app.get("/api/tasks")
GetTasks(query) ==
    LET op == "GET /api/tasks"
    IN /\ requests < MaxRequests
       /\ IF Supplied(query, "status") /\ query["status"] \notin Statuses
          THEN Respond(op, NoId, query, 400, "Invalid status value", NoResult, Unchanged)
          ELSE IF Supplied(query, "employee_id") /\ ParseInt(query["employee_id"]).nan
          THEN Respond(op, NoId, query, 400, "Invalid employee_id", NoResult, Unchanged)
          ELSE Respond(op, NoId, query, 200, "",
                       getAllTasksFiltered(TaskFilters(query)), Unchanged)

\* app.get("/api/tasks/:id")
GetTask(param) ==
    LET op == "GET /api/tasks/:id"
        id == ParseInt(param)
        task == getTaskById(id.n)
    IN /\ requests < MaxRequests
       /\ IF id.nan
          THEN Respond(op, param, <<>>, 400, "Invalid task ID", NoResult, Unchanged)
          ELSE IF ~task.found
          THEN Respond(op, param, <<>>, 404, "Task not found", NoResult, Unchanged)
          ELSE Respond(op, param, <<>>, 200, "", task, Unchanged)

(***************************************************************************)
(* The requests sent: path parameters and JSON bodies.                     *)
(***************************************************************************)
EmployeeParams == {"1", "9"}
TaskParams == {"1", "25"}
NotANumber == {"abc"}

NewEmployee == [name |-> "Asha Rao", email |-> "asha.rao@company.com",
                department |-> "Engineering", position |-> "Developer"]

EmployeeBodies == {
    NewEmployee,
    [NewEmployee EXCEPT !.email = "raj.patel@company.com"],
    [NewEmployee EXCEPT !.email = "Raj.Patel@company.com"],
    [NewEmployee EXCEPT !.name = "", !.email = "raj.patel@company.com"] }

EmployeePatches == {
    <<>>,
    [name |-> "Raj P."],
    [email |-> "raj.patel@company.com"],
    [name |-> "P. Sharma", email |-> "priya.sharma@company.com",
     department |-> "Platform", position |-> "Lead"],
    [email |-> "not-an-email"] }

TaskBodies == {
    [title |-> "Write release notes", employeeId |-> 1],
    [title |-> "Write release notes", employeeId |-> 9],
    [title |-> "Plan sprint", employeeId |-> 2, description |-> "",
     status |-> "completed", dueDate |-> "2025-13-01", priority |-> "high"],
    [title |-> "", employeeId |-> 1] }

TaskPatches == {
    <<>>,
    [status |-> "completed"],
    [employeeId |-> 2],
    [employeeId |-> 9],
    [title |-> "Fix login", description |-> Null, status |-> "pending",
     dueDate |-> Null, priority |-> "low"],
    [status |-> "done"] }

Next ==
    \/ Tick
    \/ \E body \in EmployeeBodies : PostEmployee(body) /\ ClientIdle
    \/ \E param \in EmployeeParams, body \in EmployeePatches : PutEmployee(param, body) /\ ClientIdle
    \/ \E param \in EmployeeParams \cup NotANumber : DeleteEmployee(param) /\ ClientIdle
    \/ \E body \in TaskBodies : PostTask(body) /\ ClientIdle
    \/ \E param \in TaskParams, body \in TaskPatches : PutTask(param, body) /\ ClientIdle
    \/ \E param \in TaskParams \cup NotANumber : DeleteTask(param) /\ ClientIdle

Spec == Init /\ [][Next]_vars

(***************************************************************************)
(* The dashboard over stores of every size up to MaxStatTasks: the seed    *)
(* tasks were deleted and total tasks created since, completed of them     *)
(* with status 'completed'.                                                *)
(***************************************************************************)
InitStats ==
    /\ employees = [i \in 1..Len(SeedEmployees) |->
                      EmployeeRow(SeedEmployees[i][1], SeedEmployees[i][2],
                                  SeedEmployees[i][3], SeedEmployees[i][4], 0)]
    /\ \E total \in 0..MaxStatTasks : \E completed \in 0..total :
         /\ tasks = [i \in (Len(SeedTasks) + 1)..(Len(SeedTasks) + total) |->
                       TaskRow("Write release notes", Null,
                               IF i <= Len(SeedTasks) + completed
                               THEN "completed" ELSE "pending",
                               1, Null, "medium", 0, 0)]
         /\ seqTasks = Len(SeedTasks) + total
         /\ everTaskIds = 1..(Len(SeedTasks) + total)
    /\ seqEmployees = Len(SeedEmployees)
    /\ now = 0
    /\ everEmployeeIds = 1..Len(SeedEmployees)
    /\ requests = 0
    /\ last = [op |-> "start", id |-> NoId, body |-> <<>>, status |-> 0,
               error |-> "", result |-> <<>>, sent |-> 0]
    /\ updatingTaskId = <<>>
    /\ mutations = <<>>

NextStats == GetDashboard /\ ClientIdle

SpecStats == InitStats /\ [][NextStats]_vars

(***************************************************************************)
(* The read handlers beside the write handlers, with path and query        *)
(* parameters that are not decimal integers among the requests.            *)
(***************************************************************************)
ReadEmployeeParams == {"1", "9", "abc", "1abc"}
ReadTaskParams == {"1", "25", "abc", "1.5"}

TaskQueries == {
    <<>>,
    [status |-> "completed"],
    [employee_id |-> "1"],
    [status |-> "completed", employee_id |-> "1"],
    [employee_id |-> "9"],
    [employee_id |-> "0"],
    [employee_id |-> "abc"],
    [employee_id |-> "1abc"],
    [status |-> "done"] }

ReadEmployeeBodies == {NewEmployee, [NewEmployee EXCEPT !.email = "raj.patel@company.com"]}
ReadEmployeePatches == {[name |-> "Raj P."], [email |-> "asha.rao@company.com"]}
ReadTaskBodies == {[title |-> "Write release notes", employeeId |-> 1]}
ReadTaskPatches == {[status |-> "completed"]}

NextRead ==
    \/ Tick
    \/ \E body \in ReadEmployeeBodies : PostEmployee(body) /\ ClientIdle
    \/ \E param \in {"1", "1abc", "abc"}, body \in ReadEmployeePatches :
         PutEmployee(param, body) /\ ClientIdle
    \/ \E param \in ReadEmployeeParams : DeleteEmployee(param) /\ ClientIdle
    \/ \E body \in ReadTaskBodies : PostTask(body) /\ ClientIdle
    \/ \E param \in {"1", "1.5", "abc"}, body \in ReadTaskPatches : PutTask(param, body) /\ ClientIdle
    \/ \E param \in {"1", "1abc", "abc"} : DeleteTask(param) /\ ClientIdle
    \/ GetHealth /\ ClientIdle
    \/ GetEmployees /\ ClientIdle
    \/ \E param \in ReadEmployeeParams : GetEmployee(param) /\ ClientIdle
    \/ \E query \in TaskQueries : GetTasks(query) /\ ClientIdle
    \/ \E param \in ReadTaskParams : GetTask(param) /\ ClientIdle
    \/ GetDashboard /\ ClientIdle

SpecRead == Init /\ [][NextRead]_vars

(***************************************************************************)
(* The create and update handlers with bodies that break several rules,    *)
(* carry keys outside the schema, or name rows that do not exist.          *)
(***************************************************************************)
Ten == "0123456789"
Fifty == Ten \o Ten \o Ten \o Ten \o Ten
LongName == Fifty \o Fifty \o "x"

ValidateEmployeeBodies == {
    NewEmployee,
    [name |-> "", email |-> "not-an-email", department |-> "", position |-> "Developer"],
    [email |-> ""],
    [NewEmployee EXCEPT !.name = LongName, !.email = "asha.rao@company"] }

ValidateEmployeePatches == {
    [name |-> "", email |-> "raj.patel@"],
    [name |-> "Raj P.", email |-> "raj.patel@company.com", position |-> "Architect"],
    [id |-> 99, createdAt |-> 5, name |-> "Renamed"],
    [department |-> ""] }

ValidateTaskBodies == {
    [title |-> "Write release notes", employeeId |-> 1, description |-> "Version 2"],
    [title |-> "", employeeId |-> 0, status |-> "done", priority |-> "urgent",
     dueDate |-> "tomorrow"],
    <<>>,
    [title |-> "Write release notes", employeeId |-> 9, priority |-> "urgent"] }

ValidateTaskPatches == {
    [title |-> "", status |-> "done"],
    [employeeId |-> 9, status |-> "done"],
    [employeeId |-> 9],
    [id |-> 99, createdAt |-> 5, updatedAt |-> 5, title |-> "Renamed"],
    [priority |-> "high"] }

NextValidate ==
    \/ Tick
    \/ \E body \in ValidateEmployeeBodies : PostEmployee(body) /\ ClientIdle
    \/ \E param \in EmployeeParams \cup NotANumber, body \in ValidateEmployeePatches :
         PutEmployee(param, body) /\ ClientIdle
    \/ \E body \in ValidateTaskBodies : PostTask(body) /\ ClientIdle
    \/ \E param \in TaskParams \cup NotANumber, body \in ValidateTaskPatches :
         PutTask(param, body) /\ ClientIdle

SpecValidate == Init /\ [][NextValidate]_vars

(***************************************************************************)
(* Process start on an existing database file: runMigrations() creates     *)
(* nothing (CREATE TABLE IF NOT EXISTS), then seedDatabase() runs. Its     *)
(* inserts are separate statements, each committed on its own; an insert   *)
(* that throws ends the start with the earlier ones kept.                  *)
(***************************************************************************)
RECURSIVE InsertSeedEmployees(_, _, _)
\* for (const emp of employees) insertEmployee.run(...emp), from the i-th on
InsertSeedEmployees(i, emps, seq) ==
    IF i > Len(SeedEmployees) THEN [error |-> "", employees |-> emps, seq |-> seq]
    ELSE LET id == NextRowId(seq, emps)
             row == EmployeeRow(SeedEmployees[i][1], SeedEmployees[i][2],
                                SeedEmployees[i][3], SeedEmployees[i][4], now)
         IN IF ~UniqueEmailOk(emps, id, row.email)
            THEN [error |-> "UNIQUE constraint failed: employees.email",
                  employees |-> emps, seq |-> seq]
            ELSE InsertSeedEmployees(i + 1, (id :> row) @@ emps, id)

RECURSIVE InsertSeedTasks(_, _, _, _)
\* for (const task of tasks) insertTask.run(...task), from the i-th on
InsertSeedTasks(i, emps, tsks, seq) ==
    IF i > Len(SeedTasks) THEN [error |-> "", tasks |-> tsks, seq |-> seq]
    ELSE LET id == NextRowId(seq, tsks)
             row == TaskRow(SeedTasks[i][1], SeedTasks[i][2], SeedTasks[i][3],
                            SeedTasks[i][4], SeedTasks[i][5], SeedTasks[i][6], now, now)
         IN IF ~CheckOk(row)
            THEN [error |-> "CHECK constraint failed: tasks", tasks |-> tsks, seq |-> seq]
            ELSE IF ~ForeignKeyOk(emps, row.employeeId)
            THEN [error |-> "FOREIGN KEY constraint failed", tasks |-> tsks, seq |-> seq]
            ELSE InsertSeedTasks(i + 1, emps, (id :> row) @@ tsks, id)

\* seedDatabase(): skipped when the employees table has a row
seedDatabase ==
    IF DOMAIN employees # {} THEN Unchanged
    ELSE LET e == InsertSeedEmployees(1, employees, seqEmployees)
             t == InsertSeedTasks(1, e.employees, tasks, seqTasks)
         IN IF e.error # ""
            THEN [Returned(FALSE, 0, e.employees, tasks, e.seq, seqTasks)
                    EXCEPT !.error = e.error]
            ELSE [Returned(t.error = "", 0, e.employees, t.tasks, e.seq, t.seq)
                    EXCEPT !.error = t.error]

\* the process is started (again): storage.ts:6-7; error is the message of
\* the exception that ended the start, if any
Restart ==
    LET r == seedDatabase
    IN /\ employees' = r.employees
       /\ tasks' = r.tasks
       /\ seqEmployees' = r.seqEmployees
       /\ seqTasks' = r.seqTasks
       /\ everEmployeeIds' = everEmployeeIds \cup DOMAIN r.employees
       /\ everTaskIds' = everTaskIds \cup DOMAIN r.tasks
       /\ last' = [op |-> "start", id |-> NoId, body |-> <<>>, status |-> 0,
                   error |-> r.error, result |-> <<>>, sent |-> 0]
       /\ UNCHANGED <<now, requests, updatingTaskId, mutations>>

\* the seeded store once every employee but those of kept has been deleted
InitBoot ==
    /\ \E kept \in SUBSET {1, 2} :
         /\ employees = [i \in kept |->
                           EmployeeRow(SeedEmployees[i][1], SeedEmployees[i][2],
                                       SeedEmployees[i][3], SeedEmployees[i][4], 0)]
         /\ tasks = [i \in {t \in 1..Len(SeedTasks) : SeedTasks[t][4] \in kept} |->
                       TaskRow(SeedTasks[i][1], SeedTasks[i][2], SeedTasks[i][3],
                               SeedTasks[i][4], SeedTasks[i][5], SeedTasks[i][6], 0, 0)]
    /\ seqEmployees = Len(SeedEmployees)
    /\ seqTasks = Len(SeedTasks)
    /\ now = 0
    /\ everEmployeeIds = 1..Len(SeedEmployees)
    /\ everTaskIds = 1..Len(SeedTasks)
    /\ requests = 0
    /\ last = [op |-> "start", id |-> NoId, body |-> <<>>, status |-> 0,
               error |-> "", result |-> <<>>, sent |-> 0]
    /\ updatingTaskId = <<>>
    /\ mutations = <<>>

NextBoot ==
    \/ Tick
    \/ Restart
    \/ \E param \in {"1", "2", "9"} : DeleteEmployee(param) /\ ClientIdle
    \/ PostEmployee(NewEmployee) /\ ClientIdle
    \/ \E body \in ReadTaskBodies : PostTask(body) /\ ClientIdle

SpecBoot == InitBoot /\ [][NextBoot]_vars

(***************************************************************************)
(* client/src/App.tsx, Tasks page: the quick status change of a task card.  *)
(* One updatingTaskId serves every card; each choice in a card's selector   *)
(* starts a mutation of its own, whose PUT the server handles at some later *)
(* moment and whose promise settles later still.                            *)
(***************************************************************************)
MaxMutations == 3

\* the cards on the page: the tasks of the list as it was fetched
QuickTasks == {1, 2}

DigitChars == <<"0", "1", "2", "3", "4", "5", "6", "7", "8", "9">>

\* `${id}` of a non-negative integer
RECURSIVE NumberToString(_)
NumberToString(n) ==
    IF n < 10 THEN DigitChars[n + 1]
    ELSE NumberToString(n \div 10) \o DigitChars[(n % 10) + 1]

\* isUpdating={updatingTaskId === task.id}, the disabled of the card's Select
isUpdating(t) == updatingTaskId = <<t>>

\* the mutation has not settled
InFlight(i) == mutations[i].state # "settled"

\* onValueChange of the enabled Select of card t: handleQuickStatusChange,
\* mutate({ id, status }), onMutate
Mutate(t, status) ==
    /\ Len(mutations) < MaxMutations
    /\ ~isUpdating(t)
    /\ updatingTaskId' = <<t>>
    /\ mutations' = Append(mutations, [id |-> t, status |-> status,
                                       state |-> "pending", response |-> 0])
    /\ UNCHANGED <<employees, tasks, seqEmployees, seqTasks, now,
                   everEmployeeIds, everTaskIds, requests, last>>

\* the PUT /api/tasks/${id} with body { status } of mutation i reaches the
\* server and is handled
Deliver(i) ==
    /\ mutations[i].state = "pending"
    /\ PutTask(NumberToString(mutations[i].id), [status |-> mutations[i].status])
    /\ mutations' = [mutations EXCEPT ![i].state = "answered",
                                      ![i].response = last'.status]
    /\ UNCHANGED updatingTaskId

\* the promise of mutation i settles, on the response or on a failure of the
\* request: onSuccess or onError, then onSettled
Settle(i) ==
    /\ InFlight(i)
    /\ updatingTaskId' = <<>>
    /\ mutations' = [mutations EXCEPT ![i].state = "settled"]
    /\ UNCHANGED <<employees, tasks, seqEmployees, seqTasks, now,
                   everEmployeeIds, everTaskIds, requests, last>>

NextClient ==
    \/ Tick
    \/ \E t \in QuickTasks, status \in Statuses : Mutate(t, status)
    \/ \E i \in 1..Len(mutations) : Deliver(i)
    \/ \E i \in 1..Len(mutations) : Settle(i)
    \/ DeleteTask("1") /\ ClientIdle

SpecClient == Init /\ [][NextClient]_vars

(***************************************************************************)
(* Properties.                                                             *)
(***************************************************************************)
\* this step handled the request recorded in last'
Handled == requests' = requests + 1

StoreUnchanged == UNCHANGED <<employees, tasks, seqEmployees, seqTasks>>

\* the id a path parameter names
PathId(param) == ParseInt(param).n

\* C1: in every reachable state every stored task's employeeId is the id of
\* an employee that exists.
C1_TasksReferenceEmployees ==
    \A t \in DOMAIN tasks : tasks[t].employeeId \in DOMAIN employees

\* C1 case: an employee was just deleted, tasks remain, and a task created
\* or reassigned through the API is among them
C1_Witness ==
    /\ last.op = "DELETE /api/employees/:id"
    /\ last.status = 200
    /\ \E t \in DOMAIN tasks :
         t > Len(SeedTasks) \/ tasks[t].employeeId # SeedTasks[t][4]

\* C2: when deleteEmployee(id) succeeds, the resulting state holds no task
\* with employeeId = id, none of the tasks the employee had is still a row
\* or listed by getAllTasks, and getAllEmployees does not list the employee.
C2_DeleteEmployeeCascades ==
    [][(Handled /\ last'.op = "DELETE /api/employees/:id" /\ last'.status = 200)
       => LET id == PathId(last'.id)
          IN /\ id \in DOMAIN employees
             /\ id \notin getAllEmployees'
             /\ \A t \in DOMAIN tasks' : tasks'[t].employeeId # id
             /\ \A t \in DOMAIN tasks :
                  tasks[t].employeeId = id
                    => t \notin DOMAIN tasks' /\ t \notin getAllTasks']_vars

\* C2 case: employee 1 was deleted while it owned the three tasks 1, 2, 3
C2_Witness ==
    /\ requests = 1
    /\ last.op = "DELETE /api/employees/:id"
    /\ last.status = 200
    /\ last.id = "1"
    /\ {1, 2, 3} \cap DOMAIN tasks = {}

\* C3: no two employees share an email (exact match), and a valid POST
\* /employees whose email is that of an existing employee is answered 400
\* 'Email already exists', inserts no row and changes no employee.
C3_UniqueEmail ==
    /\ [](\A a, b \in DOMAIN employees :
            a # b => employees[a].email # employees[b].email)
    /\ [][(/\ Handled
           /\ last'.op = "POST /api/employees"
           /\ EmployeeIssues(last'.body, FALSE) = <<>>
           /\ \E e \in DOMAIN employees : employees[e].email = last'.body["email"])
          => /\ last'.status = 400
             /\ last'.error = "Email already exists"
             /\ StoreUnchanged]_vars

\* C3 case: a POST with the email of an existing employee was answered 400,
\* after the same email in another letter case had been accepted as new
C3_Witness ==
    /\ last.op = "POST /api/employees"
    /\ last.status = 400
    /\ last.error = "Email already exists"
    /\ \E a, b \in DOMAIN employees :
         /\ employees[a].email = "raj.patel@company.com"
         /\ employees[b].email = "Raj.Patel@company.com"

\* C4: a created employee's id was never the id of an employee before, one
\* deleted since included; and so for tasks.
C4_FreshIds ==
    [][/\ (Handled /\ last'.op = "POST /api/employees" /\ last'.status = 201)
          => /\ last'.result.id \notin everEmployeeIds
             /\ last'.result.id \in DOMAIN employees'
             /\ DOMAIN employees' = DOMAIN employees \cup {last'.result.id}
       /\ (Handled /\ last'.op = "POST /api/tasks" /\ last'.status = 201)
          => /\ last'.result.id \notin everTaskIds
             /\ last'.result.id \in DOMAIN tasks'
             /\ DOMAIN tasks' = DOMAIN tasks \cup {last'.result.id}]_vars

\* C4 case: an employee was created after the employee with the largest id
\* so far had been deleted
C4_Witness ==
    /\ last.op = "POST /api/employees"
    /\ last.status = 201
    /\ \E old \in everEmployeeIds \ DOMAIN employees :
         \A e \in DOMAIN employees : e # last.result.id => e < old

\* C5: POST /tasks with a valid body whose employeeId matches no employee is
\* answered 400 and leaves both tables as they were.
C5_PostTaskUnknownEmployee ==
    [][(/\ Handled
        /\ last'.op = "POST /api/tasks"
        /\ TaskIssues(last'.body, FALSE) = <<>>
        /\ last'.body["employeeId"] \notin DOMAIN employees)
       => /\ last'.status = 400
          /\ StoreUnchanged]_vars

\* C5 case: a valid POST /tasks naming employee 9, which does not exist,
\* was answered 400
C5_Witness ==
    /\ last.op = "POST /api/tasks"
    /\ last.status = 400
    /\ last.error = "Employee not found"
    /\ TaskIssues(last.body, FALSE) = <<>>
    /\ last.body["employeeId"] \notin DOMAIN employees

\* C6: PUT /tasks/:id whose body supplies an employeeId that matches no
\* employee is answered 400 and writes nothing; a valid request for a task
\* id that does not exist, its employeeId (if any) existing, is answered 404.
C6_PutTaskUnknownEmployee ==
    [][/\ (/\ Handled
           /\ last'.op = "PUT /api/tasks/:id"
           /\ Has(last'.body, "employeeId")
           /\ last'.body["employeeId"] \notin DOMAIN employees)
          => /\ last'.status = 400
             /\ StoreUnchanged
       /\ (/\ Handled
           /\ last'.op = "PUT /api/tasks/:id"
           /\ ~ParseInt(last'.id).nan
           /\ TaskIssues(last'.body, TRUE) = <<>>
           /\ Has(last'.body, "employeeId") => last'.body["employeeId"] \in DOMAIN employees
           /\ PathId(last'.id) \notin DOMAIN tasks)
          => /\ last'.status = 404
             /\ StoreUnchanged]_vars

\* C6 case: a PUT on an existing task naming a missing employee was answered
\* 400 'Employee not found' after the clock had advanced past the task's
\* updatedAt
C6_Witness ==
    /\ last.op = "PUT /api/tasks/:id"
    /\ last.status = 400
    /\ last.error = "Employee not found"
    /\ PathId(last.id) \in DOMAIN tasks
    /\ tasks[PathId(last.id)].updatedAt < now

\* a successful PUT /tasks/:id with an empty body: updateTask(id, {})
EmptyTaskUpdate ==
    /\ Handled
    /\ last'.op = "PUT /api/tasks/:id"
    /\ last'.status = 200
    /\ DOMAIN last'.body = {}

\* the fields of a task row other than updatedAt
TaskFrameFields == TaskFields \cup {"createdAt"}

\* C7 as stated: updateTask(id, {}) always yields an updatedAt later than
\* before, whatever the time elapsed, and leaves the other fields as they
\* were.
C7_UpdatedAtAlwaysLater ==
    [][EmptyTaskUpdate
       => LET id == PathId(last'.id)
          IN /\ tasks'[id].updatedAt > tasks[id].updatedAt
             /\ \A f \in TaskFrameFields : tasks'[id][f] = tasks[id][f]]_vars

\* C7 amended: updateTask(id, {}) sets updatedAt to the store's current
\* second, which is never earlier than before and is later exactly when the
\* clock has advanced since the task was last written; the other fields and
\* the id stay as they were.
C7_UpdatedAtRefreshed ==
    [][EmptyTaskUpdate
       => LET id == PathId(last'.id)
          IN /\ id \in DOMAIN tasks /\ id \in DOMAIN tasks'
             /\ last'.result.id = id
             /\ tasks'[id].updatedAt = now
             /\ tasks'[id].updatedAt >= tasks[id].updatedAt
             /\ (tasks'[id].updatedAt > tasks[id].updatedAt) <=> (now > tasks[id].updatedAt)
             /\ \A f \in TaskFrameFields : tasks'[id][f] = tasks[id][f]]_vars

\* C7 case: an empty update of a task after the clock advanced past its
\* creation
C7_Witness ==
    /\ last.op = "PUT /api/tasks/:id"
    /\ last.status = 200
    /\ DOMAIN last.body = {}
    /\ last.result.row.updatedAt > last.result.row.createdAt

\* the rows of table other than id are the same in both tables
OthersSame(before, after, id) ==
    /\ DOMAIN after = DOMAIN before
    /\ \A k \in (DOMAIN before) \ {id} : after[k] = before[k]

\* a PUT /employees/:id answered 200
EmployeeUpdated ==
    Handled /\ last'.op = "PUT /api/employees/:id" /\ last'.status = 200

\* a PUT /tasks/:id answered 200
TaskUpdated ==
    Handled /\ last'.op = "PUT /api/tasks/:id" /\ last'.status = 200

\* C8 as stated, for updateTask: every field of the row that is absent from
\* the patch is left unchanged.
C8_AbsentFieldsUnchanged ==
    [][TaskUpdated
       => LET id == PathId(last'.id)
          IN \A f \in (DOMAIN tasks[id]) \ (DOMAIN last'.body) :
               tasks'[id][f] = tasks[id][f]]_vars

\* C8 amended: updateEmployee and updateTask set exactly the fields present
\* in the patch to the values supplied and leave the absent fields and all
\* other rows unchanged, except that updateTask also sets updatedAt to the
\* current time; updateEmployee with an empty patch returns the existing row
\* and writes nothing; both return 'not found' (404) and write nothing when
\* the id does not exist.
C8_PartialUpdate ==
    /\ [][/\ EmployeeUpdated
             => LET id == PathId(last'.id)
                    patch == Restrict(last'.body, EmployeeFields)
                IN /\ \A f \in DOMAIN patch : employees'[id][f] = patch[f]
                   /\ \A f \in (DOMAIN employees[id]) \ (DOMAIN patch) :
                        employees'[id][f] = employees[id][f]
                   /\ OthersSame(employees, employees', id)
                   /\ UNCHANGED <<tasks, seqEmployees, seqTasks>>
                   /\ last'.result = [id |-> id, row |-> employees'[id]]
                   /\ DOMAIN patch = {} => StoreUnchanged
          /\ TaskUpdated
             => LET id == PathId(last'.id)
                    patch == Restrict(last'.body, TaskFields)
                IN /\ \A f \in DOMAIN patch : tasks'[id][f] = patch[f]
                   /\ \A f \in TaskFrameFields \ (DOMAIN patch) :
                        tasks'[id][f] = tasks[id][f]
                   /\ tasks'[id].updatedAt = now
                   /\ OthersSame(tasks, tasks', id)
                   /\ UNCHANGED <<employees, seqEmployees, seqTasks>>
                   /\ last'.result = [id |-> id, row |-> tasks'[id]]
          /\ (/\ Handled
              /\ last'.op = "PUT /api/employees/:id"
              /\ ~ParseInt(last'.id).nan
              /\ EmployeeIssues(last'.body, TRUE) = <<>>
              /\ PathId(last'.id) \notin DOMAIN employees)
             => last'.status = 404 /\ StoreUnchanged]_vars
    /\ [](\A param \in TaskParams \cup EmployeeParams :
            LET id == PathId(param)
            IN /\ \A patch \in TaskPatches :
                    id \notin DOMAIN tasks
                      => LET r == updateTask(id, patch)
                         IN /\ ~r.found /\ r.error = ""
                            /\ r.employees = employees /\ r.tasks = tasks
               /\ \A patch \in EmployeePatches :
                    id \notin DOMAIN employees
                      => LET r == updateEmployee(id, patch)
                         IN /\ ~r.found /\ r.error = ""
                            /\ r.employees = employees /\ r.tasks = tasks)

\* C8 case: a patch of several fields, status not among them, was applied to
\* a task
C8_Witness ==
    /\ last.op = "PUT /api/tasks/:id"
    /\ last.status = 200
    /\ Cardinality(DOMAIN last.body) >= 1
    /\ ~Has(last.body, "status")
    /\ last.result.row.status # "pending"
    /\ last.result.row.updatedAt > last.result.row.createdAt

\* C9: PUT /employees/:id on an existing employee, with a valid body whose
\* email is that of another employee, is answered 400 'Email already exists'
\* and leaves every row unchanged, the other fields of the patch unapplied.
C9_PutEmployeeDuplicateEmail ==
    [][(/\ Handled
        /\ last'.op = "PUT /api/employees/:id"
        /\ ~ParseInt(last'.id).nan
        /\ EmployeeIssues(last'.body, TRUE) = <<>>
        /\ PathId(last'.id) \in DOMAIN employees
        /\ Has(last'.body, "email")
        /\ \E e \in (DOMAIN employees) \ {PathId(last'.id)} :
             employees[e].email = last'.body["email"])
       => /\ last'.status = 400
          /\ last'.error = "Email already exists"
          /\ StoreUnchanged]_vars

\* C9 case: a patch carrying a new name together with another employee's
\* email was answered 400
C9_Witness ==
    /\ last.op = "PUT /api/employees/:id"
    /\ last.status = 400
    /\ last.error = "Email already exists"
    /\ Has(last.body, "name")
    /\ PathId(last.id) \in DOMAIN employees
    /\ employees[PathId(last.id)].name # last.body["name"]

\* the integer nearest to 100 * completed / total, a half rounded up
NearestPercent(completed, total) == (200 * completed + total) \div (2 * total)

\* C10: getDashboardStats returns totalTasks = the number of stored tasks,
\* completedTasks = the number with status 'completed', and completionRate =
\* the integer nearest to 100 * completedTasks / totalTasks (halves rounded
\* up) when totalTasks > 0 and 0 when totalTasks = 0.
C10_CompletionRate ==
    last.op = "GET /api/dashboard"
      => LET total == Cardinality(DOMAIN tasks)
             completed == Cardinality({t \in DOMAIN tasks : tasks[t].status = "completed"})
         IN /\ last.result.totalTasks = total
            /\ last.result.completedTasks = completed
            /\ last.result.completionRate =
                 IF total > 0 THEN NearestPercent(completed, total) ELSE 0

\* C11: the tasksByEmployee of GET /dashboard holds exactly one entry per
\* existing employee, an employee without tasks included with taskCount 0;
\* each taskCount is the number of tasks whose employeeId is that employee;
\* the entries are in non-increasing taskCount order.
C11_TasksByEmployee ==
    last.op = "GET /api/dashboard"
      => LET rows == last.result.tasksByEmployee
         IN /\ Len(rows) = Cardinality(DOMAIN employees)
            /\ {rows[i].employeeId : i \in 1..Len(rows)} = DOMAIN employees
            /\ \A i \in 1..Len(rows) :
                 /\ rows[i].employeeName = employees[rows[i].employeeId].name
                 /\ rows[i].taskCount =
                      Cardinality({t \in DOMAIN tasks :
                                     tasks[t].employeeId = rows[i].employeeId})
            /\ \A i, j \in 1..Len(rows) :
                 i < j => rows[i].taskCount >= rows[j].taskCount

\* C11 case: the dashboard of a store where a new employee has no task and
\* another employee has gained a fourth
C11_Witness ==
    /\ last.op = "GET /api/dashboard"
    /\ \E i, j \in 1..Len(last.result.tasksByEmployee) :
         /\ last.result.tasksByEmployee[i].taskCount = 4
         /\ last.result.tasksByEmployee[j].taskCount = 0
         /\ last.result.tasksByEmployee[j].employeeId > Len(SeedEmployees)

\* s is a decimal integer: digits, after an optional sign
IsDecimalInteger(s) ==
    /\ Len(s) >= 1
    /\ LET digits == IF Char(s, 1) \in {"+", "-"} THEN SubSeq(s, 2, Len(s)) ELSE s
       IN Len(digits) >= 1 /\ AllIn(digits, Digits)

\* C12: GET /tasks answered 200 for a query whose employee_id, if supplied,
\* is an integer returns exactly the stored tasks that satisfy every supplied
\* filter (status = s, employeeId = e; none when e matches no employee), each
\* as stored, ordered by creation time descending.
C12_FilteredTasks ==
    (/\ last.op = "GET /api/tasks"
     /\ last.status = 200
     /\ Has(last.body, "employee_id") => IsDecimalInteger(last.body["employee_id"]))
      => LET rows == last.result
             wanted ==
               {t \in DOMAIN tasks :
                  /\ Has(last.body, "status") => tasks[t].status = last.body["status"]
                  /\ Has(last.body, "employee_id")
                       => tasks[t].employeeId = ParseInt(last.body["employee_id"]).n}
         IN /\ {rows[i].id : i \in 1..Len(rows)} = wanted
            /\ Len(rows) = Cardinality(wanted)
            /\ \A i \in 1..Len(rows) : rows[i].row = tasks[rows[i].id]
            /\ \A i, j \in 1..Len(rows) :
                 i < j => rows[i].row.createdAt >= rows[j].row.createdAt

\* the routes that take an :id path parameter
IdRoutes ==
    {"GET /api/employees/:id", "PUT /api/employees/:id", "DELETE /api/employees/:id",
     "GET /api/tasks/:id", "PUT /api/tasks/:id", "DELETE /api/tasks/:id"}

\* C13: a request whose :id path parameter, or whose employee_id query
\* parameter on GET /tasks, is not a decimal integer string is answered 400
\* and reads or writes no row: the value is never coerced to some integer.
C13_NonIntegerIdRejected ==
    [][(/\ Handled
        /\ \/ last'.op \in IdRoutes /\ ~IsDecimalInteger(last'.id)
           \/ /\ last'.op = "GET /api/tasks"
              /\ Has(last'.body, "employee_id")
              /\ ~IsDecimalInteger(last'.body["employee_id"]))
       => /\ last'.status = 400
          /\ last'.result = NoResult
          /\ StoreUnchanged]_vars

\* this step is a process start
Started == last'.op = "start" /\ requests' = requests /\ now' = now

\* C14: at every process start, if the employees table is empty the
\* bootstrap completes and inserts the full sample set, 8 employees and 24
\* tasks, each task owned by an existing employee; if an employee row exists
\* it changes nothing. This holds after every employee has been deleted.
C14_Bootstrap ==
    [][Started
       => IF DOMAIN employees = {}
          THEN /\ last'.error = ""
               /\ Cardinality(DOMAIN employees') = Len(SeedEmployees)
               /\ Cardinality(DOMAIN tasks') = Len(SeedTasks)
               /\ \A t \in DOMAIN tasks' : tasks'[t].employeeId \in DOMAIN employees'
          ELSE StoreUnchanged]_vars

\* C15: every route handler sends exactly one response per request on every
\* control path (success, early return, catch branch): never none, never two.
C15_OneResponse ==
    /\ [](last.op # "start" => last.sent = 1)
    /\ [][Handled => last'.sent = 1]_vars

\* C15 case: a response sent from a catch branch, the one that maps the
\* UNIQUE violation of an insert
C15_Witness ==
    /\ last.op = "POST /api/employees"
    /\ last.error = "Email already exists"
    /\ last.sent = 1

\* the routes that read
ReadRoutes ==
    {"GET /api/employees", "GET /api/employees/:id", "GET /api/tasks",
     "GET /api/tasks/:id", "GET /api/dashboard"}

\* C16: whatever requests came before, a read shows no half-applied employee
\* delete: the stored tasks all have their owner and GET /tasks lists them
\* all, GET /tasks/:id returns a task with its existing owner, GET
\* /employees/:id returns the employee with exactly the tasks it owns, GET
\* /employees lists exactly the employees, and the dashboard counts every
\* task under an existing employee.
C16_ReadsSeeWholeDeletes ==
    /\ (last.op = "GET /api/tasks" /\ last.status = 200)
         => /\ \A i \in 1..Len(last.result) :
                 /\ last.result[i].row.employeeId \in DOMAIN employees
                 /\ last.result[i].employeeName =
                      employees[last.result[i].row.employeeId].name
            /\ DOMAIN last.body = {} => Len(last.result) = Cardinality(DOMAIN tasks)
    /\ (last.op = "GET /api/tasks/:id" /\ last.status = 200)
         => /\ last.result.row = tasks[last.result.id]
            /\ last.result.row.employeeId \in DOMAIN employees
            /\ last.result.employeeEmail = employees[last.result.row.employeeId].email
    /\ (last.op = "GET /api/tasks/:id" /\ last.status = 404)
         => PathId(last.id) \notin DOMAIN tasks
    /\ (last.op = "GET /api/employees/:id" /\ last.status = 200)
         => /\ last.result.row = employees[last.result.id]
            /\ {last.result.tasks[i].id : i \in 1..Len(last.result.tasks)}
                 = {t \in DOMAIN tasks : tasks[t].employeeId = last.result.id}
            /\ \A i \in 1..Len(last.result.tasks) :
                 last.result.tasks[i].row = tasks[last.result.tasks[i].id]
    /\ last.op = "GET /api/employees"
         => {e.id : e \in last.result} = DOMAIN employees
    /\ last.op = "GET /api/dashboard"
         => /\ \A i \in 1..Len(last.result.tasksByEmployee) :
                 last.result.tasksByEmployee[i].employeeId \in DOMAIN employees
            /\ \A t \in DOMAIN tasks :
                 \E i \in 1..Len(last.result.tasksByEmployee) :
                    last.result.tasksByEmployee[i].employeeId = tasks[t].employeeId

\* C16 case: a read of the tasks right after the delete of an employee that
\* owned tasks
C16_Witness ==
    /\ last.op = "GET /api/tasks"
    /\ last.status = 200
    /\ DOMAIN last.body = {}
    /\ 1 \in everEmployeeIds \ DOMAIN employees
    /\ Len(last.result) < Len(SeedTasks)

\* the routes that write an employee's email
EmailRoutes == {"POST /api/employees", "PUT /api/employees/:id"}

\* the request recorded in l is a schema-valid write of an email
WritesEmail(l) ==
    /\ l.op \in EmailRoutes
    /\ Has(l.body, "email")
    /\ EmployeeIssues(l.body, l.op = "PUT /api/employees/:id") = <<>>

\* C17: of two requests, handled one after the other in either order, that
\* would give two employees the same email (two POST /employees, or a POST
\* and a PUT /employees/:id), the first succeeds and the second is answered
\* 400 'Email already exists'; and a POST /tasks for employee e next to a
\* DELETE /employees/e, in either order, leaves no task that references e.
C17_ConcurrentWrites ==
    /\ [](\A t \in DOMAIN tasks : tasks[t].employeeId \in DOMAIN employees)
    /\ [](\A a, b \in DOMAIN employees :
            employees[a].email = employees[b].email => a = b)
    /\ [][(/\ Handled
           /\ WritesEmail(last) /\ last.status \in {200, 201}
           /\ WritesEmail(last')
           /\ last'.body["email"] = last.body["email"]
           /\ last'.op = "PUT /api/employees/:id"
                => /\ ~ParseInt(last'.id).nan
                   /\ PathId(last'.id) \in DOMAIN employees
                   /\ PathId(last'.id) # last.result.id)
          => /\ last'.status = 400
             /\ last'.error = "Email already exists"
             /\ StoreUnchanged]_vars
    /\ [][(/\ Handled
           /\ last.op = "DELETE /api/employees/:id" /\ last.status = 200
           /\ last'.op = "POST /api/tasks"
           /\ TaskIssues(last'.body, FALSE) = <<>>
           /\ last'.body["employeeId"] = PathId(last.id))
          => /\ last'.status = 400
             /\ StoreUnchanged]_vars
    /\ [][(/\ Handled
           /\ last.op = "POST /api/tasks" /\ last.status = 201
           /\ last'.op = "DELETE /api/employees/:id"
           /\ ~ParseInt(last'.id).nan
           /\ PathId(last'.id) = last.body["employeeId"])
          => /\ last'.status = 200
             /\ last.result.id \notin DOMAIN tasks'
             /\ \A t \in DOMAIN tasks' : tasks'[t].employeeId # PathId(last'.id)]_vars

\* C17 case: a PUT giving employee 1 the email that the POST before it gave
\* to a new employee was answered 400
C17_Witness ==
    /\ last.op = "PUT /api/employees/:id"
    /\ last.status = 400
    /\ last.error = "Email already exists"
    /\ last.body["email"] = NewEmployee.email
    /\ \E e \in DOMAIN employees :
         e > Len(SeedEmployees) /\ employees[e].email = NewEmployee.email

\* the DELETE routes
DeleteRoutes == {"DELETE /api/employees/:id", "DELETE /api/tasks/:id"}

\* the table a DELETE route deletes from
TableOf(op, emps, tsks) == IF op = "DELETE /api/employees/:id" THEN emps ELSE tsks

\* C18: a delete of an id succeeds (deleteEmployee, deleteTask return true,
\* the request is answered 200) exactly when a row with that id existed,
\* and is otherwise answered 404 with both tables unchanged; the same delete
\* twice in a row gives 200 then 404.
C18_DeleteReportsRow ==
    /\ [][(Handled /\ last'.op \in DeleteRoutes /\ ~ParseInt(last'.id).nan)
          => LET id == PathId(last'.id)
                 existed == id \in DOMAIN TableOf(last'.op, employees, tasks)
             IN /\ last'.status = IF existed THEN 200 ELSE 404
                /\ id \notin DOMAIN TableOf(last'.op, employees', tasks')
                /\ ~existed => StoreUnchanged]_vars
    /\ [][(/\ Handled
           /\ last.op \in DeleteRoutes /\ last.status = 200
           /\ last'.op = last.op
           /\ ~ParseInt(last'.id).nan
           /\ PathId(last'.id) = PathId(last.id))
          => last'.status = 404 /\ StoreUnchanged]_vars

\* C18 case: a delete of task 1, which an earlier DELETE /tasks/1 had removed
\* while its owner stayed, was answered 404
C18_Witness ==
    /\ last.op = "DELETE /api/tasks/:id"
    /\ last.status = 404
    /\ PathId(last.id) = 1
    /\ 1 \in DOMAIN employees

\* C19: a request answered 400 or 404 leaves the employees table and the
\* tasks table exactly as they were.
C19_RejectedLeavesStore ==
    [][(Handled /\ last'.status \in {400, 404})
       => UNCHANGED <<employees, tasks>>]_vars

\* C19 case: a valid update of a task that an earlier request had deleted
\* was answered 404
C19_Witness ==
    /\ last.op = "PUT /api/tasks/:id"
    /\ last.status = 404
    /\ DOMAIN last.body # {}
    /\ PathId(last.id) \in everTaskIds

\* C20: a task created by POST /tasks is stored with the title and employeeId
\* supplied, and with status, priority, description and dueDate as supplied
\* when the body carries them, else 'pending', 'medium', null and null.
C20_CreateDefaults ==
    [][(Handled /\ last'.op = "POST /api/tasks" /\ last'.status = 201)
       => LET row == tasks'[last'.result.id]
              body == last'.body
          IN /\ row.title = body["title"]
             /\ row.employeeId = body["employeeId"]
             /\ row.status = IF Has(body, "status") THEN body["status"] ELSE "pending"
             /\ row.priority = IF Has(body, "priority") THEN body["priority"] ELSE "medium"
             /\ row.description =
                  IF Has(body, "description") THEN body["description"] ELSE Null
             /\ row.dueDate = IF Has(body, "dueDate") THEN body["dueDate"] ELSE Null]_vars

\* the create and update routes
BodyRoutes ==
    {"POST /api/employees", "PUT /api/employees/:id", "POST /api/tasks", "PUT /api/tasks/:id"}

\* the update routes, where every field is optional
UpdateRoutes == {"PUT /api/employees/:id", "PUT /api/tasks/:id"}

\* the rule of a required text field: message when it is missing from a
\* create body or present and empty
RequiredBroken(op, body, f) ==
    IF Has(body, f) THEN body[f] = "" ELSE op \notin UpdateRoutes

\* the messages of the field rules that the body of a request to op breaks
BrokenRules(op, body) ==
    IF op \in {"POST /api/employees", "PUT /api/employees/:id"}
    THEN {m \in {"Name is required", "Name must be less than 100 characters",
                 "Email is required", "Invalid email format",
                 "Department is required", "Position is required"} :
            \/ m = "Name is required" /\ RequiredBroken(op, body, "name")
            \/ m = "Name must be less than 100 characters"
                 /\ Has(body, "name") /\ Len(body["name"]) > 100
            \/ m = "Email is required" /\ RequiredBroken(op, body, "email")
            \/ m = "Invalid email format"
                 /\ Has(body, "email") /\ ~IsEmail(body["email"])
            \/ m = "Department is required" /\ RequiredBroken(op, body, "department")
            \/ m = "Position is required" /\ RequiredBroken(op, body, "position")}
    ELSE {m \in {"Title is required", "Title must be less than 200 characters",
                 "Status must be 'pending', 'in-progress', or 'completed'",
                 "Employee ID is required", "Employee ID must be positive",
                 "Due date must be in YYYY-MM-DD format",
                 "Priority must be 'low', 'medium', or 'high'"} :
            \/ m = "Title is required" /\ RequiredBroken(op, body, "title")
            \/ m = "Title must be less than 200 characters"
                 /\ Has(body, "title") /\ Len(body["title"]) > 200
            \/ m = "Status must be 'pending', 'in-progress', or 'completed'"
                 /\ Has(body, "status")
                 /\ body["status"] \notin {"pending", "in-progress", "completed"}
            \/ m = "Employee ID is required"
                 /\ ~Has(body, "employeeId") /\ op \notin UpdateRoutes
            \/ m = "Employee ID must be positive"
                 /\ Has(body, "employeeId") /\ body["employeeId"] < 1
            \/ m = "Due date must be in YYYY-MM-DD format"
                 /\ Has(body, "dueDate") /\ body["dueDate"] # Null
                 /\ ~IsDateShape(body["dueDate"])
            \/ m = "Priority must be 'low', 'medium', or 'high'"
                 /\ Has(body, "priority")
                 /\ body["priority"] \notin {"low", "medium", "high"}}

\* the messages of all field rules of the route
RuleMessages(op) ==
    IF op \in {"POST /api/employees", "PUT /api/employees/:id"}
    THEN {"Name is required", "Name must be less than 100 characters",
          "Email is required", "Invalid email format",
          "Department is required", "Position is required"}
    ELSE {"Title is required", "Title must be less than 200 characters",
          "Status must be 'pending', 'in-progress', or 'completed'",
          "Employee ID is required", "Employee ID must be positive",
          "Due date must be in YYYY-MM-DD format",
          "Priority must be 'low', 'medium', or 'high'"}

\* C21: a create or update body that breaks field rules is answered with one
\* 400 whose error carries the message of every rule broken, and of no
\* other, and nothing is written; this holds for the fields present in an
\* update body although they are optional there.
C21_AllMessages ==
    [][(/\ Handled
        /\ last'.op \in BodyRoutes
        /\ last'.op \in UpdateRoutes => ~ParseInt(last'.id).nan
        /\ BrokenRules(last'.op, last'.body) # {})
       => /\ last'.status = 400
          /\ last'.sent = 1
          /\ \A m \in RuleMessages(last'.op) :
               Includes(last'.error, m) <=> m \in BrokenRules(last'.op, last'.body)
          /\ StoreUnchanged]_vars

\* C21 case: an update body with two fields present, each breaking its rule,
\* was answered with both messages
C21_Witness ==
    /\ last.op = "PUT /api/employees/:id"
    /\ last.status = 400
    /\ Cardinality(BrokenRules(last.op, last.body)) = 2
    /\ Includes(last.error, ", ")

\* C22: a POST /tasks or PUT /tasks/:id whose dueDate is '2025-13-01', a
\* well-shaped date with an invalid month, is answered 400 and writes nothing.
C22_InvalidMonthRejected ==
    [][(/\ Handled
        /\ last'.op \in {"POST /api/tasks", "PUT /api/tasks/:id"}
        /\ Has(last'.body, "dueDate")
        /\ last'.body["dueDate"] = "2025-13-01")
       => /\ last'.status = 400
          /\ StoreUnchanged]_vars

\* C23: the id and createdAt of an employee or task never change after
\* creation: no request changes the createdAt of a row that stays, and a PUT,
\* also one whose body carries id or createdAt keys, keeps every row under
\* its id and answers with the row of the id in the path.
C23_IdAndCreatedAtFixed ==
    /\ [][/\ \A e \in (DOMAIN employees) \cap (DOMAIN employees') :
                employees'[e].createdAt = employees[e].createdAt
          /\ \A t \in (DOMAIN tasks) \cap (DOMAIN tasks') :
                tasks'[t].createdAt = tasks[t].createdAt]_vars
    /\ [][(Handled /\ last'.op \in UpdateRoutes)
          => /\ DOMAIN employees' = DOMAIN employees
             /\ DOMAIN tasks' = DOMAIN tasks
             /\ last'.status = 200
                  => /\ last'.result.id = PathId(last'.id)
                     /\ last'.result.row.createdAt =
                          (IF last'.op = "PUT /api/tasks/:id"
                           THEN tasks ELSE employees)[PathId(last'.id)].createdAt]_vars

\* C23 case: a PUT on a task whose body carried another id and another
\* createdAt was applied after the clock had advanced
C23_Witness ==
    /\ last.op = "PUT /api/tasks/:id"
    /\ last.status = 200
    /\ Has(last.body, "id") /\ last.body["id"] # last.result.id
    /\ Has(last.body, "createdAt") /\ last.body["createdAt"] # last.result.row.createdAt
    /\ last.result.row.updatedAt > last.result.row.createdAt

\* the sum of taskCount over the rows from the i-th on
RECURSIVE SumTaskCount(_, _)
SumTaskCount(rows, i) ==
    IF i > Len(rows) THEN 0 ELSE rows[i].taskCount + SumTaskCount(rows, i + 1)

\* the dashboard d agrees with itself and with the unfiltered task list
DashboardConsistent(d, list) ==
    /\ d.tasksByStatus.pending + d.tasksByStatus.inProgress
          + d.tasksByStatus.completed = d.totalTasks
    /\ SumTaskCount(d.tasksByEmployee, 1) = d.totalTasks
    /\ 0 <= d.completionRate /\ d.completionRate <= 100
    /\ Len(list) = d.totalTasks

\* C24: in every reachable state the dashboard is consistent: the three
\* status counts add up to totalTasks, the taskCounts of tasksByEmployee add
\* up to totalTasks, completionRate is within 0..100, and the unfiltered task
\* list has totalTasks entries; so is every dashboard a request was answered.
C24_DashboardConsistent ==
    /\ DashboardConsistent(getDashboardStats, getAllTasksFiltered(<<>>))
    /\ last.op = "GET /api/dashboard"
         => DashboardConsistent(last.result, getAllTasksFiltered(<<>>))

\* C24 case: the dashboard answered after an employee with tasks was deleted
\* and tasks remain
C24_Witness ==
    /\ last.op = "GET /api/dashboard"
    /\ everEmployeeIds # DOMAIN employees
    /\ everTaskIds # DOMAIN tasks
    /\ last.result.totalTasks > 0
    /\ last.result.totalTasks = Cardinality(DOMAIN tasks)

\* C25: a DELETE /employees/:id answered 200 removes employee id and the tasks
\* whose employeeId is id at that moment, and nothing else: every other
\* employee and every task of another employee, one reassigned away from id
\* included, stays as it was; any other answer leaves both tables alone.
C25_DeleteFrame ==
    [][(Handled /\ last'.op = "DELETE /api/employees/:id")
       => IF last'.status = 200
          THEN LET id == PathId(last'.id)
               IN /\ id \in DOMAIN employees
                  /\ DOMAIN employees' = (DOMAIN employees) \ {id}
                  /\ \A e \in DOMAIN employees' : employees'[e] = employees[e]
                  /\ DOMAIN tasks' = {t \in DOMAIN tasks : tasks[t].employeeId # id}
                  /\ \A t \in DOMAIN tasks' : tasks'[t] = tasks[t]
          ELSE employees' = employees /\ tasks' = tasks]_vars

\* C25 case: employee 1 was deleted after its seed task 1 had been reassigned
\* to employee 2: task 1 is still there, tasks 2 and 3 went with employee 1
C25_Witness ==
    /\ last.op = "DELETE /api/employees/:id"
    /\ last.status = 200
    /\ PathId(last.id) = 1
    /\ SeedTasks[1][4] = 1
    /\ 1 \in DOMAIN tasks /\ tasks[1].employeeId = 2
    /\ DOMAIN tasks \cap {2, 3} = {}

C27_CheckOrder ==
    [][(Handled /\ last'.op \in UpdateRoutes)
       => LET op == last'.op
              body == last'.body
              id == ParseInt(last'.id)
              onTasks == op = "PUT /api/tasks/:id"
          IN IF id.nan
             THEN /\ last'.status = 400
                  /\ last'.error = IF onTasks THEN "Invalid task ID"
                                   ELSE "Invalid employee ID"
                  /\ StoreUnchanged
             ELSE IF BrokenRules(op, body) # {}
             THEN /\ last'.status = 400
                  /\ \E m \in BrokenRules(op, body) : Includes(last'.error, m)
                  /\ last'.error \notin {"Employee not found", "Task not found"}
                  /\ StoreUnchanged
             ELSE IF onTasks /\ Has(body, "employeeId")
                     /\ body["employeeId"] \notin DOMAIN employees
             THEN /\ last'.status = 400
                  /\ last'.error = "Employee not found"
                  /\ StoreUnchanged
             ELSE IF id.n \notin DOMAIN (IF onTasks THEN tasks ELSE employees)
             THEN /\ last'.status = 404
                  /\ last'.error = IF onTasks THEN "Task not found"
                                   ELSE "Employee not found"
                  /\ StoreUnchanged
             ELSE last'.status # 404]_vars

\* C27 case: a PUT naming a task that does not exist and an employee that does
\* not exist was answered 400 'Employee not found'
C27_Witness ==
    /\ last.op = "PUT /api/tasks/:id"
    /\ ~ParseInt(last.id).nan
    /\ PathId(last.id) \notin DOMAIN tasks
    /\ BrokenRules(last.op, last.body) = {}
    /\ Has(last.body, "employeeId")
    /\ last.body["employeeId"] \notin DOMAIN employees
    /\ last.status = 400
    /\ last.error = "Employee not found"

\* the create and update routes of employees
EmployeeWriteRoutes == {"POST /api/employees", "PUT /api/employees/:id"}

\* C28: an email is taken only by the employees that exist: a valid POST
\* /employees, or PUT /employees/:id on an existing employee, whose email no
\* other existing employee holds succeeds and stores that email, also when a
\* deleted employee held it; the employee a POST creates has an id no
\* employee ever had and owns no task.
C28_EmailFreedByDelete ==
    [][(/\ Handled
        /\ last'.op \in EmployeeWriteRoutes
        /\ BrokenRules(last'.op, last'.body) = {}
        /\ Has(last'.body, "email")
        /\ last'.op = "PUT /api/employees/:id"
             => /\ ~ParseInt(last'.id).nan
                /\ PathId(last'.id) \in DOMAIN employees
        /\ \A e \in DOMAIN employees :
             (last'.op = "PUT /api/employees/:id" => e # PathId(last'.id))
               => employees[e].email # last'.body["email"])
       => /\ last'.status = IF last'.op = "POST /api/employees" THEN 201 ELSE 200
          /\ last'.result.id \in DOMAIN employees'
          /\ employees'[last'.result.id].email = last'.body["email"]
          /\ last'.op = "POST /api/employees"
               => /\ last'.result.id \notin everEmployeeIds
                  /\ \A t \in DOMAIN tasks' : tasks'[t].employeeId # last'.result.id
                  /\ tasks' = tasks]_vars

\* C28 case: seed employee 1 was deleted with its tasks, and a POST with its
\* email then created an employee under a new id, without tasks
C28_Witness ==
    /\ last.op = "POST /api/employees"
    /\ last.status = 201
    /\ last.body["email"] = SeedEmployees[1][2]
    /\ 1 \notin DOMAIN employees
    /\ last.result.id > Len(SeedEmployees)
    /\ DOMAIN tasks \cap {1, 2, 3} = {}
    /\ \A t \in DOMAIN tasks : tasks[t].employeeId # last.result.id

\* C29: a valid PUT /employees/:id on an existing employee whose body sets
\* email to that employee's current email is answered 200, never 'Email
\* already exists'; the email stays, every other supplied field is applied
\* and every field not supplied stays.
C29_OwnEmailAccepted ==
    [][(/\ Handled
        /\ last'.op = "PUT /api/employees/:id"
        /\ ~ParseInt(last'.id).nan
        /\ PathId(last'.id) \in DOMAIN employees
        /\ BrokenRules(last'.op, last'.body) = {}
        /\ Has(last'.body, "email")
        /\ last'.body["email"] = employees[PathId(last'.id)].email)
       => LET id == PathId(last'.id)
          IN /\ last'.status = 200
             /\ last'.error # "Email already exists"
             /\ DOMAIN employees' = DOMAIN employees
             /\ employees'[id].email = employees[id].email
             /\ \A f \in {"name", "department", "position"} :
                  employees'[id][f] =
                    IF Has(last'.body, f) THEN last'.body[f] ELSE employees[id][f]
             /\ last'.result.row = employees'[id]
             /\ \A e \in (DOMAIN employees) \ {id} : employees'[e] = employees[e]]_vars

\* C29 case: employee 1 was renamed and given a new position by a PUT that
\* also carried its own email; email and department are the seeded ones
C29_Witness ==
    /\ last.op = "PUT /api/employees/:id"
    /\ last.status = 200
    /\ PathId(last.id) = 1
    /\ Has(last.body, "email") /\ last.body["email"] = SeedEmployees[1][2]
    /\ employees[1].email = SeedEmployees[1][2]
    /\ employees[1].name = "Raj P." /\ employees[1].name # SeedEmployees[1][1]
    /\ employees[1].position = "Architect"
    /\ employees[1].department = SeedEmployees[1][3]

\* C30: while a quick-status mutation of a task has not settled, the status
\* selector of that task is disabled (isUpdating), whatever quick-status
\* mutations of other tasks were started or settled in the meantime.
C30_DisabledWhileInFlight ==
    \A i \in 1..Len(mutations) : InFlight(i) => isUpdating(mutations[i].id)

====
